---- MODULE Spec2Model ----
(***************************************************************************)
(* The Solidity ABI codec of sei-utils (evm-interop-utils/abi): the        *)
(* signature parser of common.ts, the EvmPayloadEncoder and the            *)
(* EvmPayloadDecoder of encode.ts, driven by a caller that parses,         *)
(* encodes and decodes, and the address checks of common.ts.               *)
(*                                                                         *)
(* JavaScript strings are sequences of one-character strings, Buffers are  *)
(* sequences of bytes (0..255), indices are 0-based as in the source.      *)
(***************************************************************************)
EXTENDS Integers, Sequences, FiniteSets, TLC

VARIABLES pc, sigIn, defOut, typeIn, valueIn, asType, encoded, decoded,
          addressIn, lenientIn, checksumAddress, valid

\* the arguments and results of the address functions
addressVars == <<addressIn, lenientIn, checksumAddress, valid>>

vars == <<pc, sigIn, defOut, typeIn, valueIn, asType, encoded, decoded,
          addressIn, lenientIn, checksumAddress, valid>>

(***************************************************************************)
(* String.prototype and Array helpers.                                     *)
(***************************************************************************)
SetMin(S) == CHOOSE x \in S : \A y \in S : x <= y

SetMax(S) == CHOOSE x \in S : \A y \in S : x >= y

Clamp(i, n) == IF i < 0 THEN 0 ELSE IF i > n THEN n ELSE i

\* str[i]: "undefined" outside the string
CharAt(str, i) == IF i >= 0 /\ i < Len(str) THEN str[i + 1] ELSE "undefined"

\* str.substring(a, b): both ends clamped to the string, swapped when a > b
substring(str, a, b) ==
    LET ca == Clamp(a, Len(str))
        cb == Clamp(b, Len(str))
    IN  IF ca <= cb THEN SubSeq(str, ca + 1, cb) ELSE SubSeq(str, cb + 1, ca)

substringFrom(str, a) == substring(str, a, Len(str))

\* str.indexOf(ch, from): a negative from counts as 0
indexOfFrom(str, ch, from) ==
    LET hits == {i \in Clamp(from, Len(str))..(Len(str) - 1) : str[i + 1] = ch}
    IN  IF hits = {} THEN -1 ELSE SetMin(hits)

indexOf(str, ch) == indexOfFrom(str, ch, 0)

lastIndexOf(str, ch) ==
    LET hits == {i \in 0..(Len(str) - 1) : str[i + 1] = ch}
    IN  IF hits = {} THEN -1 ELSE SetMax(hits)

startsWith(str, pat) == Len(pat) <= Len(str) /\ SubSeq(str, 1, Len(pat)) = pat

endsWith(str, pat) ==
    Len(pat) <= Len(str) /\ SubSeq(str, Len(str) - Len(pat) + 1, Len(str)) = pat

includes(str, pat) ==
    \E i \in 0..(Len(str) - Len(pat)) : SubSeq(str, i + 1, i + Len(pat)) = pat

IsSpace(c) == c \in {" ", "\t", "\n", "\f", "\r"}

trim(str) ==
    LET keep == {i \in 1..Len(str) : ~IsSpace(str[i])}
    IN  IF keep = {} THEN <<>> ELSE SubSeq(str, SetMin(keep), SetMax(keep))

RECURSIVE Flatten(_)
Flatten(seqs) == IF seqs = <<>> THEN <<>> ELSE Head(seqs) \o Flatten(Tail(seqs))

\* parts.join(sep)
RECURSIVE join(_, _)
join(parts, sep) ==
    IF parts = <<>> THEN <<>>
    ELSE IF Len(parts) = 1 THEN parts[1]
    ELSE parts[1] \o sep \o join(Tail(parts), sep)

DigitChars == <<"0", "1", "2", "3", "4", "5", "6", "7", "8", "9">>

IsDigit(c) == \E d \in 1..10 : DigitChars[d] = c

DigitVal(c) == (CHOOSE d \in 1..10 : DigitChars[d] = c) - 1

RECURSIVE DigitsToNat(_)
DigitsToNat(s) ==
    IF s = <<>> THEN 0
    ELSE 10 * DigitsToNat(SubSeq(s, 1, Len(s) - 1)) + DigitVal(s[Len(s)])

RECURSIVE NatToDigits(_)
NatToDigits(n) ==
    IF n < 10 THEN <<DigitChars[n + 1]>>
    ELSE NatToDigits(n \div 10) \o <<DigitChars[(n % 10) + 1]>>

\* Number(str) for the strings the codec passes: white space is trimmed, the
\* empty string is 0, decimal digits are their value, anything else is NaN.
Number(str) ==
    LET s == trim(str)
    IN  IF s = <<>> THEN [nan |-> FALSE, n |-> 0]
        ELSE IF \A i \in 1..Len(s) : IsDigit(s[i])
             THEN [nan |-> FALSE, n |-> DigitsToNat(s)]
             ELSE [nan |-> TRUE, n |-> 0]

(***************************************************************************)
(* common.ts: type descriptors and the signature parser.                   *)
(***************************************************************************)
UINT256_SIZE == 32

\* EVMABITupleComponent; hasComponents tells an absent "components" from []
Component(name, type) ==
    [name |-> name, type |-> type, components |-> <<>>, hasComponents |-> FALSE]

TupleComponent(name, type, components) ==
    [name |-> name, type |-> type, components |-> components, hasComponents |-> TRUE]

S_tuple == <<"t", "u", "p", "l", "e">>

S_tupleArr == <<"t", "u", "p", "l", "e", "[", "]">>

RECURSIVE tupleComponentTypeSignature(_)
RECURSIVE tupleComponentsTypeSignature(_)
tupleComponentTypeSignature(abiDef) ==
    LET abiDefType == trim(abiDef.type)
    IN  IF abiDefType = S_tuple \/ abiDefType = S_tupleArr
        THEN tupleComponentsTypeSignature(abiDef.components)
                 \o (IF endsWith(abiDefType, <<"[", "]">>) THEN <<"[", "]">> ELSE <<>>)
        ELSE abiDefType

tupleComponentsTypeSignature(abiDefs) ==
    <<"(">>
        \o join([i \in 1..Len(abiDefs) |-> tupleComponentTypeSignature(abiDefs[i])], <<",">>)
        \o <<")">>

\* One pass of the while loop of fullTupleSubstring; st.stop is the index
\* just past the character that brought bracketCount to 0, -1 until then.
fullTupleStep(str, st) ==
    LET char == CharAt(str, st.index)
        count == IF char = "(" THEN st.bracketCount + 1
                 ELSE IF char = ")" THEN st.bracketCount - 1
                 ELSE st.bracketCount
    IN  [index |-> st.index + 1, bracketCount |-> count,
         stop |-> IF count = 0 THEN st.index + 1 ELSE -1]

\* Up to k passes of the while loop from state st: the loop is over once it
\* has returned or its condition fails.
RECURSIVE fullTupleScan(_, _, _)
fullTupleScan(str, st, k) ==
    IF st.stop # -1 \/ ~(st.index < Len(str)) THEN st
    ELSE IF k = 1 THEN fullTupleStep(str, st)
    ELSE fullTupleScan(str, fullTupleScan(str, st, k \div 2), k - k \div 2)

\* [start, tuple, rest]
fullTupleSubstring(str) ==
    LET index == indexOf(str, "(")
    IN  IF index = -1 THEN <<<<>>, <<>>, str>>
        ELSE LET start == substring(str, 0, index)
                 stop == fullTupleScan(str, [index |-> index - 1, bracketCount |-> 1,
                                             stop |-> -1], Len(str) + 1).stop
             IN  IF stop # -1
                 THEN <<trim(start),
                        trim(substring(str, Len(start), stop)),
                        trim(substringFrom(str, stop))>>
                 ELSE <<trim(start), trim(substringFrom(str, Len(start))), <<>>>>

typeAndNameToComponent(typeString) ==
    LET lastSpace == lastIndexOf(typeString, " ")
    IN  IF indexOfFrom(typeString, ")", lastSpace) # -1
        THEN Component(<<>>, trim(typeString))
        ELSE IF lastSpace = -1
        THEN Component(<<>>, typeString)
        ELSE Component(substringFrom(typeString, lastSpace),
                       trim(substring(typeString, 0, lastSpace)))

\* normalizeTupleComponent returns the object it was given, rewritten in place
RECURSIVE normalizeTupleComponent(_)
RECURSIVE normalizeLoop(_, _, _, _)
\* One pass of the for loop of normalizeTupleComponent, at oldType[st.i]
normalizeStep(oldType, st) ==
    LET char == CharAt(oldType, st.i)
    IN  IF st.innerTuplesLevel > 0
        THEN [st EXCEPT !.i = @ + 1,
                        !.curType = Append(@, char),
                        !.innerTuplesLevel = IF char = ")" THEN @ - 1 ELSE @]
        ELSE IF char = "("
        THEN [st EXCEPT !.i = @ + 1,
                        !.curType = Append(@, char),
                        !.innerTuplesLevel = @ + 1]
        ELSE IF char # ","
        THEN [st EXCEPT !.i = @ + 1, !.curType = Append(@, char)]
        ELSE [st EXCEPT !.i = @ + 1,
                        !.curType = <<>>,
                        !.components =
                            Append(@, normalizeTupleComponent(
                                          typeAndNameToComponent(trim(st.curType))))]

\* Up to k passes of the for loop from state st: the loop is over once its
\* condition i < stop fails.
normalizeLoop(oldType, stop, st, k) ==
    IF ~(st.i < stop) THEN st
    ELSE IF k = 1 THEN normalizeStep(oldType, st)
    ELSE normalizeLoop(oldType, stop, normalizeLoop(oldType, stop, st, k \div 2),
                       k - k \div 2)

normalizeTupleComponent(abiDef) ==
    LET isArray == endsWith(abiDef.type, <<")", "[", "]">>)
    IN  IF ~startsWith(abiDef.type, <<"(">>) \/ (~endsWith(abiDef.type, <<")">>) /\ FALSE)
        THEN abiDef
        ELSE LET st == normalizeLoop(abiDef.type,
                                     Len(abiDef.type) - (IF isArray THEN 3 ELSE 1),
                                     [i |-> 1, innerTuplesLevel |-> 0, curType |-> <<>>,
                                      components |-> <<>>],
                                     Len(abiDef.type) + 1)
             IN  TupleComponent(abiDef.name,
                                IF isArray THEN S_tupleArr ELSE S_tuple,
                                Append(st.components,
                                       normalizeTupleComponent(
                                           typeAndNameToComponent(trim(st.curType)))))

eVMTypeToComponent(typeString) == normalizeTupleComponent(typeAndNameToComponent(typeString))

S_arg == <<"a", "r", "g">>

S_returns == <<"r", "e", "t", "u", "r", "n", "s">>

S_pure == <<"p", "u", "r", "e">>

S_view == <<"v", "i", "e", "w">>

S_payable == <<"p", "a", "y", "a", "b", "l", "e">>

functionSignatureToABIDefinition(s) ==
    LET first == fullTupleSubstring(s)
        name == first[1]
        inputs == first[2]
        second == fullTupleSubstring(first[3])
        modifiers == second[1]
        outputs == second[2]
        rest == second[3]
        inputAsComponent == normalizeTupleComponent(Component(S_arg, inputs))
        outputAsComponent ==
            IF endsWith(modifiers, S_returns)
            THEN TupleComponent(<<>>, S_tuple, <<>>)
            ELSE IF outputs # <<>>
            THEN normalizeTupleComponent(Component(S_arg, outputs))
            ELSE typeAndNameToComponent(rest)
    IN  [name |-> name,
         type |-> IF name = <<>>
                  THEN (IF inputAsComponent.hasComponents THEN "fallback" ELSE "receive")
                  ELSE "function",
         stateMutability |->
             IF includes(modifiers, S_pure) THEN "pure"
             ELSE IF includes(modifiers, S_view) THEN "view"
             ELSE IF includes(modifiers, S_payable) THEN "payable"
             ELSE "nonpayable",
         inputs |-> inputAsComponent.components,
         outputs |-> IF outputAsComponent.type = S_tuple
                     THEN outputAsComponent.components
                     ELSE <<outputAsComponent>>]

\* encodedArrayType reading the first bracket suffix where the source reads
\* the last
encodedArrayTypeFirstSuffix(type) ==
    LET i == indexOf(type, "[")
        arrayLength == substring(type, i + 1, Len(type) - 1)
        num == Number(arrayLength)
    IN  IF i = -1
        THEN [isArray |-> FALSE, lengthIsNull |-> TRUE, arrayLength |-> 0, innerType |-> type]
        ELSE IF arrayLength = <<>>
        THEN [isArray |-> TRUE, lengthIsNull |-> TRUE, arrayLength |-> 0,
              innerType |-> substring(type, 0, i)]
        ELSE [isArray |-> TRUE, lengthIsNull |-> FALSE,
              arrayLength |-> IF num.nan THEN 0 ELSE num.n,
              innerType |-> substring(type, 0, i)]

\* [isArray, arrayLength | null, innerType]
encodedArrayType(type) ==
    LET i == lastIndexOf(type, "[")
        arrayLength == substring(type, i + 1, Len(type) - 1)
        num == Number(arrayLength)
    IN  IF i = -1
        THEN [isArray |-> FALSE, lengthIsNull |-> TRUE, arrayLength |-> 0, innerType |-> type]
        ELSE IF arrayLength = <<>>
        THEN [isArray |-> TRUE, lengthIsNull |-> TRUE, arrayLength |-> 0,
              innerType |-> substring(type, 0, i)]
        ELSE [isArray |-> TRUE, lengthIsNull |-> FALSE,
              arrayLength |-> IF num.nan THEN 0 ELSE num.n,
              innerType |-> substring(type, 0, i)]

(***************************************************************************)
(* JavaScript values.  A number or bigint is a sign and a magnitude, the   *)
(* magnitude a big-endian byte sequence without leading zeros, so that     *)
(* 256-bit values are exact.  Numbers of the model are integers or NaN.    *)
(***************************************************************************)
Undefined == [t |-> "undefined"]

JNull == [t |-> "null"]

JNaN == [t |-> "nan"]

JBool(b) == [t |-> "boolean", bool |-> b]

JNumber(neg, mag) == [t |-> "number", neg |-> neg /\ mag # <<>>, mag |-> mag]

JBigInt(neg, mag) == [t |-> "bigint", neg |-> neg /\ mag # <<>>, mag |-> mag]

JString(chars) == [t |-> "string", s |-> chars]

JBuffer(bytes) == [t |-> "buffer", b |-> bytes]

JArray(elems) == [t |-> "array", e |-> elems]

\* an object with the given own properties (a function from names to values)
JObject(fields) == [t |-> "object", f |-> fields]

\* the outcome of a call that throws
Thrown(kind) == [t |-> "throw", kind |-> kind]

IsThrown(v) == v.t = "throw"

IsNumeric(v) == v.t \in {"number", "bigint"}

\* value[key] of a struct value
GetField(v, key) ==
    IF v.t = "object" /\ key \in DOMAIN v.f THEN v.f[key] ELSE Undefined

\* value[i] of an array (0-based)
GetIndex(v, i) ==
    IF v.t = "array" /\ i >= 0 /\ i < Len(v.e) THEN v.e[i + 1] ELSE Undefined

Truthy(v) ==
    CASE v.t = "boolean" -> v.bool
      [] v.t \in {"number", "bigint"} -> v.mag # <<>>
      [] v.t = "string" -> v.s # <<>>
      [] v.t \in {"undefined", "null", "nan"} -> FALSE
      [] OTHER -> TRUE

Zeros(n) == [i \in 1..n |-> 0]

StripZeros(b) ==
    IF \A i \in 1..Len(b) : b[i] = 0 THEN <<>>
    ELSE SubSeq(b, SetMin({i \in 1..Len(b) : b[i] # 0}), Len(b))

PadLeft(b, n) == IF Len(b) >= n THEN b ELSE Zeros(n - Len(b)) \o b

RECURSIVE NatToBytes(_)
NatToBytes(n) == IF n = 0 THEN <<>> ELSE NatToBytes(n \div 256) \o <<n % 256>>

RECURSIVE BytesToNat(_)
BytesToNat(b) ==
    IF \A i \in 1..Len(b) : b[i] = 0 THEN 0
    ELSE 256 * BytesToNat(SubSeq(b, 1, Len(b) - 1)) + b[Len(b)]

NumberOfNat(n) == JNumber(FALSE, NatToBytes(n))

NumberOfInt(n) == IF n < 0 THEN JNumber(TRUE, NatToBytes(-n)) ELSE JNumber(FALSE, NatToBytes(n))

BigIntOfInt(n) == IF n < 0 THEN JBigInt(TRUE, NatToBytes(-n)) ELSE JBigInt(FALSE, NatToBytes(n))

\* a < b for magnitudes
BigLess(a, b) ==
    \/ Len(a) < Len(b)
    \/ /\ Len(a) = Len(b)
       /\ \E i \in 1..Len(a) : a[i] < b[i] /\ \A j \in 1..(i - 1) : a[j] = b[j]

RECURSIVE Pow2(_)
Pow2(k) == IF k = 0 THEN 1 ELSE 2 * Pow2(k - 1)

\* a - b for magnitudes of one length with a >= b: position i borrows when
\* the nearest position below it where the digits differ has a[j] < b[j]
SubDigits(a, b) ==
    [i \in 1..Len(a) |->
        LET borrow == IF \E j \in (i + 1)..Len(a) :
                              a[j] < b[j] /\ \A k \in (i + 1)..(j - 1) : a[k] = b[k]
                      THEN 1 ELSE 0
        IN  (a[i] - b[i] - borrow + 256) % 256]

\* a - b for magnitudes with a >= b
BigSub(a, b) == StripZeros(SubDigits(a, PadLeft(b, Len(a))))

\* the carry into position i of a + b, for magnitudes of one length
AddCarry(a, b, i) ==
    IF \E j \in (i + 1)..Len(a) :
           a[j] + b[j] > 255 /\ \A k \in (i + 1)..(j - 1) : a[k] + b[k] = 255
    THEN 1 ELSE 0

AddDigits(a, b) ==
    <<AddCarry(a, b, 0)>> \o [i \in 1..Len(a) |-> (a[i] + b[i] + AddCarry(a, b, i)) % 256]

BigAdd(a, b) ==
    LET n == IF Len(a) > Len(b) THEN Len(a) ELSE Len(b)
    IN  StripZeros(AddDigits(PadLeft(a, n), PadLeft(b, n)))

\* a * 2^s for a magnitude a and s < 8
BigShl(a, s) ==
    LET p == <<0>> \o a \o <<0>>
    IN  StripZeros([i \in 1..(Len(a) + 1) |->
                       ((p[i] * Pow2(s)) % 256) + ((p[i + 1] * Pow2(s)) \div 256)])

\* a * m for a magnitude a and a small natural m
RECURSIVE BigMulSmall(_, _)
BigMulSmall(a, m) ==
    IF m = 0 \/ a = <<>> THEN <<>>
    ELSE BigAdd(IF m % 2 = 1 THEN a ELSE <<>>, BigShl(BigMulSmall(a, m \div 2), 1))

RECURSIVE BigMulPow10(_, _)
BigMulPow10(a, e) == IF e = 0 \/ a = <<>> THEN a ELSE BigMulPow10(BigMulSmall(a, 10), e - 1)

\* long division of a magnitude a by a small natural m: [quotient, remainder]
BigDivModStep(a, m, st) ==
    [i |-> st.i + 1,
     quotient |-> Append(st.quotient, (st.rem * 256 + a[st.i]) \div m),
     rem |-> (st.rem * 256 + a[st.i]) % m]

\* at most k passes of the loop, grouped in halves so that a long loop does
\* not nest deeply
RECURSIVE BigDivModLoop(_, _, _, _)
BigDivModLoop(a, m, st, k) ==
    IF st.i > Len(a) THEN st
    ELSE IF k <= 1 THEN BigDivModStep(a, m, st)
    ELSE BigDivModLoop(a, m, BigDivModLoop(a, m, st, k \div 2), k - k \div 2)

BigDivMod(a, m) == BigDivModLoop(a, m, [i |-> 1, quotient |-> <<>>, rem |-> 0], Len(a) + 1)

BigModSmall(a, m) == BigDivMod(a, m).rem

\* a \div m for a magnitude a and a small natural m
BigDivSmall(a, m) == StripZeros(BigDivMod(a, m).quotient)

\* magnitude.toString()
BigToDecStep(st) ==
    [rest |-> BigDivSmall(st.rest, 10),
     digits |-> <<DigitChars[BigModSmall(st.rest, 10) + 1]>> \o st.digits]

RECURSIVE BigToDecLoop(_, _)
BigToDecLoop(st, k) ==
    IF st.rest = <<>> THEN st
    ELSE IF k <= 1 THEN BigToDecStep(st)
    ELSE BigToDecLoop(BigToDecLoop(st, k \div 2), k - k \div 2)

BigToDec(a) ==
    IF a = <<>> THEN <<"0">>
    ELSE BigToDecLoop([rest |-> a, digits |-> <<>>], 3 * Len(a) + 1).digits

\* the magnitude of 2^k
Pow2Bytes(k) == <<Pow2(k % 8)>> \o Zeros(k \div 8)

NULL_BYTES == Zeros(32)

ONE_BYTE == Zeros(31) \o <<1>>

UINT256_MAX == [i \in 1..32 |-> 255]

GURAD_BYTES == [i \in 1..32 |-> 254]

(***************************************************************************)
(* Characters, UTF-8 and BigInt(string) over the alphabet of the model.    *)
(***************************************************************************)
LowerChars ==
    <<"a", "b", "c", "d", "e", "f", "g", "h", "i", "j", "k", "l", "m",
      "n", "o", "p", "q", "r", "s", "t", "u", "v", "w", "x", "y", "z">>

UpperChars ==
    <<"A", "B", "C", "D", "E", "F", "G", "H", "I", "J", "K", "L", "M",
      "N", "O", "P", "Q", "R", "S", "T", "U", "V", "W", "X", "Y", "Z">>

\* code 32..47 and a few more, as <<character, code>>
OtherChars ==
    <<<<" ", 32>>, <<"(", 40>>, <<")", 41>>, <<"+", 43>>, <<",", 44>>, <<"-", 45>>,
      <<".", 46>>, <<"[", 91>>, <<"]", 93>>, <<"_", 95>>>>

\* Buffer.from(str): the UTF-8 code of a character ("?" outside the alphabet)
CharCode(c) ==
    IF IsDigit(c) THEN 48 + DigitVal(c)
    ELSE IF \E i \in 1..26 : LowerChars[i] = c
    THEN 96 + (CHOOSE i \in 1..26 : LowerChars[i] = c)
    ELSE IF \E i \in 1..26 : UpperChars[i] = c
    THEN 64 + (CHOOSE i \in 1..26 : UpperChars[i] = c)
    ELSE IF \E i \in 1..Len(OtherChars) : OtherChars[i][1] = c
    THEN OtherChars[CHOOSE i \in 1..Len(OtherChars) : OtherChars[i][1] = c][2]
    ELSE 63

\* buf.toString(): the character of a byte; bytes that are no character of the
\* alphabet are kept apart by their code, bytes above 127 as U+FFFD
CodeChar(b) ==
    IF b >= 48 /\ b <= 57 THEN DigitChars[b - 47]
    ELSE IF b >= 97 /\ b <= 122 THEN LowerChars[b - 96]
    ELSE IF b >= 65 /\ b <= 90 THEN UpperChars[b - 64]
    ELSE IF \E i \in 1..Len(OtherChars) : OtherChars[i][2] = b
    THEN OtherChars[CHOOSE i \in 1..Len(OtherChars) : OtherChars[i][2] = b][1]
    ELSE IF b = 9 THEN "\t"
    ELSE IF b = 10 THEN "\n"
    ELSE IF b = 12 THEN "\f"
    ELSE IF b = 13 THEN "\r"
    ELSE IF b > 127 THEN "U+FFFD"
    ELSE "U+00" \o ToString(b)

Utf8Bytes(chars) == [i \in 1..Len(chars) |-> CharCode(chars[i])]

Utf8String(bytes) == [i \in 1..Len(bytes) |-> CodeChar(bytes[i])]

IsHexDigit(c) ==
    \/ IsDigit(c)
    \/ \E i \in 1..6 : LowerChars[i] = c \/ UpperChars[i] = c

HexVal(c) ==
    IF IsDigit(c) THEN DigitVal(c)
    ELSE 9 + (CHOOSE i \in 1..6 : LowerChars[i] = c \/ UpperChars[i] = c)

\* the magnitude of a string of decimal digits
DecToBigStep(s, st) ==
    [i |-> st.i + 1,
     mag |-> BigAdd(BigMulSmall(st.mag, 10), NatToBytes(DigitVal(s[st.i])))]

RECURSIVE DecToBigLoop(_, _, _)
DecToBigLoop(s, st, k) ==
    IF st.i > Len(s) THEN st
    ELSE IF k <= 1 THEN DecToBigStep(s, st)
    ELSE DecToBigLoop(s, DecToBigLoop(s, st, k \div 2), k - k \div 2)

DecToBig(s) == DecToBigLoop(s, [i |-> 1, mag |-> <<>>], Len(s) + 1).mag

\* the magnitude of a string of hex digits: a byte for every two of them
HexToBig(s) ==
    LET h == IF Len(s) % 2 = 1 THEN <<"0">> \o s ELSE s
    IN  StripZeros([i \in 1..(Len(h) \div 2) |-> 16 * HexVal(h[2 * i - 1]) + HexVal(h[2 * i])])

AllDigits(s) == s # <<>> /\ \A i \in 1..Len(s) : IsDigit(s[i])

AllHexDigits(s) == s # <<>> /\ \A i \in 1..Len(s) : IsHexDigit(s[i])

\* BigInt(str): white space trimmed, "" is 0n, a signed decimal or an
\* unsigned 0x literal; anything else is a SyntaxError
StringToBigInt(str) ==
    LET Parse(s) ==
            IF s = <<>> THEN JBigInt(FALSE, <<>>)
            ELSE IF AllDigits(s) THEN JBigInt(FALSE, DecToBig(s))
            ELSE IF s[1] \in {"-", "+"} /\ AllDigits(Tail(s))
            THEN JBigInt(s[1] = "-", DecToBig(Tail(s)))
            ELSE IF (startsWith(s, <<"0", "x">>) \/ startsWith(s, <<"0", "X">>))
                    /\ AllHexDigits(SubSeq(s, 3, Len(s)))
            THEN JBigInt(FALSE, HexToBig(SubSeq(s, 3, Len(s))))
            ELSE Thrown("SyntaxError")
    IN  Parse(trim(str))

\* Buffer.from(str, "hex"): whole pairs of hex digits up to the first bad one
HexToBuffer(s) ==
    LET pairs == 1..(Len(s) \div 2)
        bad == {i \in pairs : ~IsHexDigit(s[2 * i - 1]) \/ ~IsHexDigit(s[2 * i])}
        n == IF bad = {} THEN Len(s) \div 2 ELSE SetMin(bad) - 1
    IN  [i \in 1..n |-> 16 * HexVal(s[2 * i - 1]) + HexVal(s[2 * i])]

toLowerCase(str) ==
    [i \in 1..Len(str) |->
        IF \E k \in 1..26 : UpperChars[k] = str[i]
        THEN LowerChars[CHOOSE k \in 1..26 : UpperChars[k] = str[i]]
        ELSE str[i]]

toUpperCase(str) ==
    [i \in 1..Len(str) |->
        IF \E k \in 1..26 : LowerChars[k] = str[i]
        THEN UpperChars[CHOOSE k \in 1..26 : LowerChars[k] = str[i]]
        ELSE str[i]]

HexDigitChars ==
    <<"0", "1", "2", "3", "4", "5", "6", "7", "8", "9", "a", "b", "c", "d", "e", "f">>

\* bytes.toString("hex")
BytesToHex(bytes) ==
    [i \in 1..(2 * Len(bytes)) |->
        IF i % 2 = 1 THEN HexDigitChars[(bytes[(i + 1) \div 2] \div 16) + 1]
        ELSE HexDigitChars[(bytes[i \div 2] % 16) + 1]]

(***************************************************************************)
(* keccak-wasm.  The digests of the strings the model hashes are the real  *)
(* ones; a string outside the table gets a digest computed from its        *)
(* characters, which only has to differ from the tabulated ones.           *)
(***************************************************************************)
\* KECCAK-TABLE-BEGIN
KeccakTable ==
    <<
     <<<<"-", "-", "-", "-", "-", "-", "-", "-", "-", "-", "-", "-", "-", "-", "-", "-", "-", "-", "-", "-", "-", "-", "-", "-", "-", "-", "-", "-", "-", "-", "-", "-", "-", "-", "-", "-", "-", "-", "-", "-">>,
       <<"6", "3", "9", "6", "0", "c", "c", "6", "4", "8", "9", "e", "7", "d", "4", "0", "b", "9", "3", "9", "7", "b", "9", "4", "3", "6", "7", "7", "f", "6", "5", "f", "1", "6", "0", "b", "8", "9", "6", "c", "0", "1", "c", "3", "a", "6", "f", "0", "f", "8", "e", "c", "4", "7", "9", "2", "a", "4", "d", "a", "b", "7", "6", "2">>>>,
     <<<<"5", "2", "9", "0", "8", "4", "0", "0", "0", "9", "8", "5", "2", "7", "8", "8", "6", "e", "0", "f", "7", "0", "3", "0", "0", "6", "9", "8", "5", "7", "d", "2", "e", "4", "1", "6", "9", "e", "e", ".">>,
       <<"8", "0", "f", "6", "9", "1", "4", "3", "6", "e", "8", "3", "3", "1", "e", "2", "e", "9", "2", "6", "b", "f", "b", "d", "8", "5", "d", "2", "6", "f", "9", "2", "d", "5", "7", "1", "0", "2", "6", "4", "7", "7", "e", "0", "a", "4", "e", "9", "2", "d", "1", "9", "6", "d", "a", "9", "c", "0", "5", "8", "4", "f", "5", "0">>>>,
     <<<<"5", "2", "9", "0", "8", "4", "0", "0", "0", "9", "8", "5", "2", "7", "8", "8", "6", "e", "0", "f", "7", "0", "3", "0", "0", "6", "9", "8", "5", "7", "d", "2", "e", "4", "1", "6", "9", "e", "e", "7">>,
       <<"2", "9", "7", "c", "1", "b", "a", "3", "8", "8", "2", "c", "3", "e", "b", "4", "5", "b", "c", "8", "9", "7", "0", "b", "d", "b", "3", "2", "3", "f", "f", "a", "9", "8", "7", "4", "9", "9", "9", "3", "8", "3", "5", "e", "b", "f", "a", "9", "b", "4", "1", "5", "0", "e", "e", "8", "3", "0", "8", "1", "d", "a", "7", "9">>>>,
     <<<<"5", "a", "a", "e", "b", "6", "0", "5", "3", "f", "3", "e", "9", "4", "c", "9", "b", "9", "a", "0", "9", "f", "3", "3", "6", "6", "9", "4", "3", "5", "e", "7", "e", "f", "1", "b", "e", "a", "e", ".">>,
       <<"d", "d", "7", "5", "0", "3", "3", "d", "b", "8", "b", "c", "1", "8", "e", "a", "5", "b", "8", "0", "a", "f", "3", "e", "5", "8", "4", "5", "c", "a", "0", "5", "5", "6", "7", "a", "b", "f", "7", "9", "f", "8", "0", "a", "e", "c", "f", "7", "0", "8", "c", "2", "6", "3", "6", "b", "1", "a", "1", "a", "e", "8", "5", "3">>>>,
     <<<<"5", "a", "a", "e", "b", "6", "0", "5", "3", "f", "3", "e", "9", "4", "c", "9", "b", "9", "a", "0", "9", "f", "3", "3", "6", "6", "9", "4", "3", "5", "e", "7", "e", "f", "1", "b", "e", "a", "e", "d">>,
       <<"d", "3", "8", "5", "6", "5", "0", "c", "e", "8", "f", "d", "c", "6", "d", "b", "7", "e", "e", "3", "a", "0", "9", "1", "d", "3", "4", "8", "1", "4", "d", "b", "c", "4", "c", "e", "1", "8", "2", "1", "9", "f", "f", "a", "e", "5", "2", "1", "8", "2", "e", "f", "f", "f", "4", "0", "3", "4", "d", "7", "0", "7", "e", "5">>>>,
     <<<<"7", "0", "9", "f", "2", "1", "0", "2", "3", "0", "6", "2", "2", "0", "9", "2", "1", "0", "6", "0", "3", "1", "4", "7", "1", "5", "6", "2", "9", "0", "8", "0", "e", "2", "f", "b", "7", "7">>,
       <<"5", "d", "e", "2", "4", "e", "f", "1", "b", "a", "e", "3", "d", "5", "3", "f", "0", "a", "b", "c", "b", "9", "b", "3", "b", "a", "9", "c", "c", "8", "2", "3", "f", "a", "3", "d", "c", "3", "6", "6", "0", "5", "3", "2", "7", "0", "1", "7", "e", "9", "d", "2", "b", "1", "5", "f", "4", "a", "9", "8", "1", "f", "4", "0">>>>,
     <<<<"9", "0", "8", "4", "0", "0", "0", "9", "8", "5", "2", "7", "8", "8", "6", "e", "0", "f", "7", "0", "3", "0", "0", "6", "9", "8", "5", "7", "d", "2", "e", "4", "1", "6", "9", "e", "e", "7">>,
       <<"3", "9", "9", "9", "a", "6", "9", "8", "4", "0", "6", "a", "d", "1", "b", "c", "9", "1", "c", "0", "c", "4", "3", "4", "a", "4", "a", "d", "0", "2", "5", "f", "e", "3", "5", "5", "7", "d", "0", "8", "7", "5", "3", "5", "e", "c", "8", "3", "f", "8", "c", "4", "8", "a", "b", "9", "b", "b", "c", "f", "6", "3", "5", "f">>>>,
     <<<<"a", "a", "a", "a", "a", "a", "a", "a", "a", "a", "a", "a", "a", "a", "a", "a", "a", "a", "a", "a", "a", "a", "a", "a", "a", "a", "a", "a", "a", "a", "a", "a", "a", "a", "a", "a", "a", "a">>,
       <<"a", "9", "c", "1", "a", "c", "e", "e", "4", "6", "0", "4", "d", "5", "a", "1", "d", "1", "6", "8", "3", "b", "c", "4", "4", "0", "8", "9", "0", "0", "6", "c", "b", "5", "8", "4", "5", "6", "f", "6", "8", "b", "c", "7", "c", "b", "b", "3", "8", "1", "8", "7", "3", "6", "4", "d", "e", "3", "b", "9", "5", "c", "0", "8">>>>,
     <<<<"a", "a", "a", "a", "a", "a", "a", "a", "a", "a", "a", "a", "a", "a", "a", "a", "a", "a", "a", "a", "a", "a", "a", "a", "a", "a", "a", "a", "a", "a", "a", "a", "a", "a", "a", "a", "a", "a", "a", ".">>,
       <<"f", "9", "0", "1", "d", "5", "5", "e", "2", "1", "6", "8", "0", "f", "0", "3", "a", "5", "3", "1", "a", "c", "7", "a", "1", "6", "f", "3", "0", "5", "8", "b", "d", "b", "1", "d", "6", "0", "7", "a", "0", "7", "9", "e", "1", "0", "5", "a", "d", "1", "7", "a", "c", "d", "6", "4", "d", "2", "8", "7", "0", "3", "f", "d">>>>,
     <<<<"a", "a", "a", "a", "a", "a", "a", "a", "a", "a", "a", "a", "a", "a", "a", "a", "a", "a", "a", "a", "a", "a", "a", "a", "a", "a", "a", "a", "a", "a", "a", "a", "a", "a", "a", "a", "a", "a", "a", "a">>,
       <<"4", "e", "5", "8", "4", "9", "5", "0", "e", "7", "8", "4", "a", "7", "5", "c", "4", "f", "a", "f", "e", "9", "8", "d", "d", "3", "4", "2", "c", "0", "a", "0", "b", "3", "2", "d", "6", "2", "c", "3", "8", "a", "3", "8", "4", "7", "8", "0", "9", "0", "7", "6", "2", "8", "4", "a", "3", "7", "1", "f", "9", "9", "9", "1">>>>,
     <<<<"a", "e", "b", "6", "0", "5", "3", "f", "3", "e", "9", "4", "c", "9", "b", "9", "a", "0", "9", "f", "3", "3", "6", "6", "9", "4", "3", "5", "e", "7", "e", "f", "1", "b", "e", "a", "e", "d">>,
       <<"a", "c", "3", "7", "0", "a", "9", "5", "4", "f", "0", "1", "8", "0", "3", "5", "4", "0", "9", "c", "0", "4", "c", "3", "5", "f", "3", "8", "9", "1", "0", "f", "0", "5", "6", "6", "2", "7", "f", "2", "2", "0", "1", "6", "2", "f", "b", "7", "f", "c", "0", "3", "3", "2", "e", "0", "d", "a", "8", "2", "9", "4", "e", "4">>>>,
     <<<<"d", "e", "7", "0", "9", "f", "2", "1", "0", "2", "3", "0", "6", "2", "2", "0", "9", "2", "1", "0", "6", "0", "3", "1", "4", "7", "1", "5", "6", "2", "9", "0", "8", "0", "e", "2", "f", "b", "7", ".">>,
       <<"e", "1", "2", "9", "2", "d", "f", "5", "b", "6", "9", "b", "4", "d", "3", "7", "d", "d", "5", "e", "6", "5", "9", "d", "f", "c", "1", "a", "7", "5", "a", "9", "c", "a", "c", "1", "0", "1", "1", "9", "1", "b", "c", "7", "7", "9", "c", "8", "3", "c", "c", "2", "f", "6", "b", "c", "6", "a", "0", "c", "0", "4", "7", "4">>>>,
     <<<<"d", "e", "7", "0", "9", "f", "2", "1", "0", "2", "3", "0", "6", "2", "2", "0", "9", "2", "1", "0", "6", "0", "3", "1", "4", "7", "1", "5", "6", "2", "9", "0", "8", "0", "e", "2", "f", "b", "7", "7">>,
       <<"2", "4", "f", "c", "8", "3", "b", "c", "d", "0", "0", "b", "a", "1", "3", "6", "0", "e", "4", "b", "3", "0", "5", "8", "1", "b", "9", "e", "b", "8", "c", "1", "5", "e", "0", "c", "3", "3", "4", "4", "5", "e", "2", "e", "f", "1", "1", "0", "2", "c", "3", "d", "4", "4", "0", "c", "b", "0", "6", "3", "1", "1", "6", "f">>>>,
     <<<<"f", "(", "(", "b", "o", "o", "l", ",", "u", "i", "n", "t", "8", ")", ")">>,
       <<"4", "a", "5", "f", "f", "f", "b", "9", "4", "7", "2", "c", "e", "c", "1", "e", "5", "5", "5", "1", "d", "3", "a", "a", "d", "4", "2", "e", "6", "e", "c", "0", "1", "1", "f", "7", "c", "c", "d", "f", "c", "0", "0", "8", "7", "3", "e", "0", "6", "4", "0", "d", "2", "e", "5", "8", "3", "1", "5", "0", "8", "2", "b", "9">>>>,
     <<<<"f", "(", "(", "b", "o", "o", "l", ",", "u", "i", "n", "t", "8", ")", ",", "(", "b", "o", "o", "l", ",", "u", "i", "n", "t", "8", ")", ")">>,
       <<"9", "e", "4", "9", "8", "5", "1", "1", "8", "3", "6", "f", "8", "1", "1", "e", "9", "9", "a", "5", "9", "5", "3", "6", "0", "c", "9", "7", "3", "1", "7", "7", "b", "e", "d", "8", "4", "4", "5", "9", "b", "1", "4", "3", "6", "4", "4", "3", "d", "6", "b", "9", "f", "a", "e", "1", "e", "0", "7", "6", "d", "1", "b", "e">>>>,
     <<<<"f", "(", "(", "b", "o", "o", "l", ",", "u", "i", "n", "t", "8", ")", ",", "(", "b", "o", "o", "l", ",", "u", "i", "n", "t", "8", ")", "[", "2", "]", ")">>,
       <<"8", "3", "4", "d", "5", "d", "3", "4", "8", "c", "8", "9", "8", "b", "3", "4", "c", "2", "e", "8", "7", "8", "9", "f", "e", "1", "8", "4", "3", "e", "2", "a", "2", "2", "4", "d", "5", "6", "f", "b", "d", "b", "c", "c", "e", "7", "c", "2", "c", "e", "e", "b", "7", "6", "b", "c", "9", "7", "b", "1", "5", "2", "c", "8">>>>,
     <<<<"f", "(", "(", "b", "o", "o", "l", ",", "u", "i", "n", "t", "8", ")", ",", "(", "b", "o", "o", "l", ",", "u", "i", "n", "t", "8", ")", "[", "]", ")">>,
       <<"f", "8", "a", "7", "2", "d", "0", "2", "4", "8", "2", "5", "0", "3", "b", "5", "b", "6", "0", "4", "8", "f", "8", "d", "5", "e", "5", "7", "a", "9", "5", "5", "e", "8", "b", "d", "3", "c", "8", "8", "e", "1", "2", "c", "0", "4", "0", "7", "b", "3", "f", "0", "8", "1", "c", "0", "b", "0", "b", "3", "f", "2", "a", "e">>>>,
     <<<<"f", "(", "(", "b", "o", "o", "l", ",", "u", "i", "n", "t", "8", ")", ",", "a", "d", "d", "r", "e", "s", "s", ")">>,
       <<"5", "5", "2", "9", "c", "e", "3", "3", "e", "6", "f", "a", "6", "f", "2", "3", "c", "0", "e", "0", "7", "7", "7", "5", "f", "e", "b", "f", "b", "f", "4", "3", "e", "6", "4", "9", "5", "c", "a", "2", "9", "0", "0", "4", "e", "8", "0", "5", "6", "6", "c", "f", "0", "7", "0", "0", "a", "1", "a", "a", "0", "a", "2", "4">>>>,
     <<<<"f", "(", "(", "b", "o", "o", "l", ",", "u", "i", "n", "t", "8", ")", ",", "t", "u", "p", "l", "e", "[", "2", "]", ")">>,
       <<"0", "1", "f", "8", "6", "c", "5", "3", "f", "8", "1", "e", "8", "2", "a", "9", "2", "f", "1", "9", "8", "0", "c", "d", "2", "2", "2", "5", "c", "b", "d", "1", "9", "4", "a", "9", "7", "d", "b", "2", "5", "1", "c", "3", "5", "0", "e", "7", "5", "5", "d", "c", "7", "b", "a", "3", "2", "f", "a", "c", "e", "1", "9", "c">>>>,
     <<<<"f", "(", "(", "b", "o", "o", "l", ",", "u", "i", "n", "t", "8", ")", ",", "u", "i", "n", "t", "2", "5", "6", ")">>,
       <<"2", "c", "3", "4", "9", "f", "9", "b", "f", "2", "6", "1", "b", "e", "f", "c", "5", "2", "7", "4", "3", "6", "c", "0", "a", "8", "7", "9", "c", "f", "7", "7", "9", "8", "c", "b", "3", "4", "7", "c", "b", "8", "8", "3", "a", "6", "f", "1", "9", "2", "9", "b", "e", "d", "a", "6", "a", "5", "0", "7", "4", "3", "4", "c">>>>,
     <<<<"f", "(", "(", "b", "o", "o", "l", ",", "u", "i", "n", "t", "8", ")", "[", "2", "]", ")">>,
       <<"f", "3", "3", "e", "b", "6", "2", "0", "6", "3", "9", "9", "f", "e", "9", "5", "3", "8", "1", "2", "2", "c", "8", "d", "9", "b", "a", "5", "2", "2", "6", "4", "0", "2", "d", "3", "8", "d", "8", "5", "0", "5", "0", "5", "d", "b", "5", "f", "7", "2", "b", "f", "4", "7", "a", "7", "4", "3", "0", "9", "b", "2", "8", "4">>>>,
     <<<<"f", "(", "(", "b", "o", "o", "l", ",", "u", "i", "n", "t", "8", ")", "[", "2", "]", ",", "(", "b", "o", "o", "l", ",", "u", "i", "n", "t", "8", ")", ")">>,
       <<"a", "4", "e", "6", "4", "e", "b", "5", "b", "1", "e", "6", "1", "8", "3", "1", "5", "9", "0", "4", "2", "f", "5", "d", "e", "3", "f", "0", "1", "3", "9", "e", "0", "1", "2", "a", "e", "3", "5", "c", "0", "9", "1", "0", "8", "4", "3", "3", "0", "8", "0", "e", "a", "9", "4", "7", "8", "9", "1", "a", "6", "c", "3", "c">>>>,
     <<<<"f", "(", "(", "b", "o", "o", "l", ",", "u", "i", "n", "t", "8", ")", "[", "2", "]", ",", "(", "b", "o", "o", "l", ",", "u", "i", "n", "t", "8", ")", "[", "2", "]", ")">>,
       <<"c", "3", "d", "c", "9", "8", "9", "9", "a", "0", "d", "7", "b", "0", "e", "1", "1", "3", "a", "2", "2", "c", "f", "7", "c", "4", "5", "c", "9", "7", "3", "9", "7", "e", "9", "5", "f", "c", "d", "5", "b", "3", "1", "3", "4", "b", "1", "f", "e", "c", "7", "f", "b", "5", "8", "4", "b", "5", "2", "1", "1", "6", "2", "d">>>>,
     <<<<"f", "(", "(", "b", "o", "o", "l", ",", "u", "i", "n", "t", "8", ")", "[", "2", "]", ",", "(", "b", "o", "o", "l", ",", "u", "i", "n", "t", "8", ")", "[", "]", ")">>,
       <<"9", "a", "6", "4", "2", "b", "f", "a", "f", "d", "c", "e", "3", "4", "8", "e", "1", "9", "5", "a", "6", "f", "0", "0", "3", "9", "9", "c", "c", "9", "4", "7", "c", "6", "9", "8", "f", "6", "d", "6", "8", "7", "9", "e", "0", "4", "f", "0", "5", "a", "0", "9", "8", "2", "6", "e", "5", "2", "0", "e", "4", "4", "7", "5">>>>,
     <<<<"f", "(", "(", "b", "o", "o", "l", ",", "u", "i", "n", "t", "8", ")", "[", "2", "]", ",", "a", "d", "d", "r", "e", "s", "s", ")">>,
       <<"2", "f", "d", "2", "5", "1", "b", "b", "6", "4", "4", "0", "c", "5", "e", "7", "5", "4", "1", "6", "c", "f", "f", "3", "e", "f", "2", "d", "4", "9", "b", "0", "9", "e", "5", "b", "d", "8", "f", "8", "f", "d", "b", "1", "1", "e", "2", "d", "a", "e", "d", "6", "1", "c", "1", "8", "2", "3", "1", "8", "c", "1", "d", "7">>>>,
     <<<<"f", "(", "(", "b", "o", "o", "l", ",", "u", "i", "n", "t", "8", ")", "[", "2", "]", ",", "u", "i", "n", "t", "2", "5", "6", ")">>,
       <<"7", "2", "5", "0", "8", "e", "5", "1", "9", "6", "8", "3", "3", "3", "c", "3", "5", "1", "4", "6", "2", "6", "6", "b", "7", "d", "0", "3", "0", "d", "c", "8", "a", "5", "e", "c", "c", "8", "2", "c", "3", "9", "4", "4", "c", "b", "f", "1", "d", "4", "f", "0", "f", "5", "2", "c", "b", "5", "d", "f", "a", "7", "d", "0">>>>,
     <<<<"f", "(", "(", "b", "o", "o", "l", ",", "u", "i", "n", "t", "8", ")", "[", "]", ")">>,
       <<"a", "c", "f", "9", "c", "2", "3", "d", "f", "9", "6", "2", "9", "d", "0", "9", "2", "4", "5", "a", "5", "8", "6", "6", "2", "1", "6", "c", "d", "c", "4", "9", "d", "9", "5", "d", "b", "9", "2", "d", "1", "5", "1", "3", "f", "b", "f", "4", "2", "e", "1", "b", "8", "f", "b", "2", "e", "5", "e", "f", "0", "1", "1", "e">>>>,
     <<<<"f", "(", "(", "b", "o", "o", "l", ",", "u", "i", "n", "t", "8", ")", "[", "]", ",", "(", "b", "o", "o", "l", ",", "u", "i", "n", "t", "8", ")", ")">>,
       <<"0", "1", "e", "0", "2", "6", "f", "f", "5", "e", "e", "e", "2", "1", "6", "6", "c", "6", "3", "0", "6", "c", "8", "b", "8", "2", "3", "6", "4", "3", "9", "e", "3", "3", "8", "7", "c", "7", "8", "a", "e", "d", "6", "3", "c", "9", "0", "0", "a", "b", "5", "0", "d", "f", "0", "9", "6", "1", "b", "9", "d", "3", "3", "b">>>>,
     <<<<"f", "(", "(", "b", "o", "o", "l", ",", "u", "i", "n", "t", "8", ")", "[", "]", ",", "(", "b", "o", "o", "l", ",", "u", "i", "n", "t", "8", ")", "[", "2", "]", ")">>,
       <<"c", "f", "f", "a", "2", "2", "e", "9", "d", "e", "b", "d", "1", "1", "8", "5", "a", "c", "e", "c", "f", "b", "f", "b", "e", "b", "0", "b", "c", "1", "f", "5", "8", "0", "f", "3", "d", "1", "9", "a", "6", "f", "1", "3", "6", "3", "8", "a", "6", "3", "d", "4", "d", "9", "0", "5", "0", "6", "b", "a", "6", "b", "7", "8">>>>,
     <<<<"f", "(", "(", "b", "o", "o", "l", ",", "u", "i", "n", "t", "8", ")", "[", "]", ",", "(", "b", "o", "o", "l", ",", "u", "i", "n", "t", "8", ")", "[", "]", ")">>,
       <<"7", "f", "c", "1", "8", "4", "3", "0", "1", "3", "8", "d", "2", "3", "a", "d", "b", "7", "3", "a", "f", "8", "7", "6", "6", "a", "1", "e", "4", "0", "f", "2", "6", "4", "3", "0", "c", "8", "b", "b", "c", "5", "2", "c", "5", "5", "3", "0", "5", "2", "0", "4", "f", "3", "c", "1", "d", "1", "2", "4", "2", "2", "2", "3">>>>,
     <<<<"f", "(", "(", "b", "o", "o", "l", ",", "u", "i", "n", "t", "8", ")", "[", "]", ",", "a", "d", "d", "r", "e", "s", "s", ")">>,
       <<"8", "e", "b", "6", "b", "d", "d", "7", "a", "4", "9", "a", "6", "7", "2", "7", "e", "c", "b", "6", "e", "1", "9", "6", "4", "2", "8", "2", "5", "8", "a", "b", "e", "c", "4", "8", "f", "5", "3", "1", "2", "d", "2", "b", "2", "8", "e", "b", "1", "7", "3", "b", "d", "6", "1", "5", "4", "2", "b", "6", "8", "b", "9", "6">>>>,
     <<<<"f", "(", "(", "b", "o", "o", "l", ",", "u", "i", "n", "t", "8", ")", "[", "]", ",", "t", "u", "p", "l", "e", "[", "2", "]", ")">>,
       <<"3", "e", "a", "c", "5", "f", "9", "0", "e", "1", "7", "1", "a", "2", "9", "1", "6", "b", "4", "b", "4", "2", "5", "a", "3", "6", "c", "f", "f", "2", "1", "1", "a", "b", "c", "c", "1", "2", "d", "0", "a", "5", "6", "d", "9", "3", "2", "3", "4", "c", "a", "7", "6", "2", "9", "1", "c", "5", "6", "8", "7", "7", "5", "7">>>>,
     <<<<"f", "(", "(", "b", "o", "o", "l", ",", "u", "i", "n", "t", "8", ")", "[", "]", ",", "u", "i", "n", "t", "2", "5", "6", ")">>,
       <<"8", "2", "b", "3", "7", "0", "3", "b", "6", "7", "1", "2", "8", "e", "f", "5", "9", "b", "e", "f", "7", "9", "f", "0", "d", "f", "4", "8", "5", "5", "8", "b", "e", "7", "d", "f", "a", "1", "f", "3", "2", "d", "4", "d", "b", "f", "6", "4", "b", "e", "1", "2", "b", "1", "f", "f", "4", "c", "d", "2", "4", "e", "6", "e">>>>,
     <<<<"f", "(", "a", "d", "d", "r", "e", "s", "s", ")">>,
       <<"f", "c", "6", "8", "5", "2", "1", "a", "c", "c", "e", "e", "f", "9", "f", "9", "f", "5", "2", "1", "e", "9", "4", "8", "7", "2", "2", "b", "a", "8", "a", "6", "3", "e", "7", "6", "8", "1", "0", "8", "e", "3", "a", "0", "a", "2", "a", "e", "3", "9", "8", "4", "2", "8", "d", "c", "1", "7", "5", "2", "2", "8", "d", "f">>>>,
     <<<<"f", "(", "a", "d", "d", "r", "e", "s", "s", ",", "(", "b", "o", "o", "l", ",", "u", "i", "n", "t", "8", ")", ")">>,
       <<"2", "a", "6", "8", "2", "b", "8", "3", "7", "1", "8", "7", "1", "c", "8", "f", "d", "f", "a", "f", "d", "8", "d", "f", "8", "e", "1", "3", "0", "4", "1", "d", "0", "2", "b", "3", "5", "9", "f", "7", "e", "1", "5", "5", "2", "1", "4", "3", "b", "5", "4", "f", "4", "e", "5", "4", "9", "8", "9", "1", "4", "e", "5", "c">>>>,
     <<<<"f", "(", "a", "d", "d", "r", "e", "s", "s", ",", "(", "b", "o", "o", "l", ",", "u", "i", "n", "t", "8", ")", "[", "2", "]", ")">>,
       <<"d", "b", "0", "8", "1", "5", "a", "2", "c", "3", "7", "9", "a", "d", "c", "3", "e", "a", "1", "f", "1", "c", "5", "8", "4", "8", "d", "6", "1", "d", "e", "c", "3", "d", "5", "7", "1", "e", "9", "4", "4", "1", "f", "1", "5", "7", "3", "4", "c", "8", "f", "1", "7", "7", "e", "c", "c", "7", "3", "2", "7", "c", "8", "8">>>>,
     <<<<"f", "(", "a", "d", "d", "r", "e", "s", "s", ",", "(", "b", "o", "o", "l", ",", "u", "i", "n", "t", "8", ")", "[", "]", ")">>,
       <<"d", "8", "1", "1", "0", "2", "4", "e", "2", "9", "1", "9", "4", "5", "d", "e", "a", "e", "3", "2", "4", "8", "3", "a", "1", "9", "9", "0", "5", "b", "0", "3", "c", "5", "c", "9", "c", "0", "7", "a", "6", "e", "2", "c", "d", "3", "f", "0", "f", "d", "9", "d", "7", "b", "4", "d", "b", "a", "c", "8", "4", "d", "7", "8">>>>,
     <<<<"f", "(", "a", "d", "d", "r", "e", "s", "s", ",", "a", "d", "d", "r", "e", "s", "s", ")">>,
       <<"4", "d", "2", "0", "1", "c", "c", "b", "9", "8", "8", "a", "7", "d", "c", "5", "6", "e", "d", "9", "2", "a", "5", "9", "d", "a", "3", "e", "5", "d", "a", "e", "c", "e", "c", "2", "2", "3", "f", "2", "0", "8", "0", "2", "1", "e", "2", "f", "4", "8", "8", "6", "8", "3", "e", "5", "e", "4", "1", "f", "a", "9", "0", "f">>>>,
     <<<<"f", "(", "a", "d", "d", "r", "e", "s", "s", ",", "t", "u", "p", "l", "e", "[", "2", "]", ")">>,
       <<"b", "0", "8", "9", "c", "d", "1", "b", "7", "2", "5", "c", "7", "4", "e", "a", "d", "3", "4", "6", "4", "3", "e", "2", "9", "4", "d", "f", "5", "c", "7", "c", "f", "e", "7", "f", "b", "1", "6", "6", "3", "6", "6", "9", "3", "d", "2", "c", "6", "8", "8", "6", "8", "e", "d", "9", "2", "2", "3", "e", "f", "c", "5", "9">>>>,
     <<<<"f", "(", "a", "d", "d", "r", "e", "s", "s", ",", "u", "i", "n", "t", "2", "5", "6", ")">>,
       <<"7", "2", "4", "6", "5", "8", "c", "1", "a", "d", "c", "c", "4", "e", "c", "d", "a", "3", "d", "8", "4", "a", "8", "6", "5", "c", "6", "c", "1", "0", "4", "6", "b", "d", "1", "f", "5", "f", "1", "0", "5", "5", "f", "f", "4", "2", "5", "3", "5", "3", "b", "d", "e", "b", "a", "1", "a", "d", "2", "e", "f", "8", "4", "0">>>>,
     <<<<"f", "(", "t", "u", "p", "l", "e", "[", "2", "]", ")">>,
       <<"5", "0", "1", "3", "d", "f", "a", "0", "2", "8", "0", "c", "d", "7", "7", "c", "6", "f", "d", "c", "8", "e", "9", "c", "5", "b", "4", "9", "5", "8", "b", "2", "a", "4", "9", "4", "9", "b", "a", "3", "b", "5", "8", "4", "6", "7", "d", "a", "d", "1", "9", "b", "f", "9", "0", "5", "8", "a", "c", "7", "2", "8", "2", "6">>>>,
     <<<<"f", "(", "t", "u", "p", "l", "e", "[", "2", "]", ",", "(", "b", "o", "o", "l", ",", "u", "i", "n", "t", "8", ")", ")">>,
       <<"1", "d", "4", "2", "f", "d", "4", "f", "c", "6", "e", "f", "f", "f", "4", "b", "0", "4", "e", "6", "1", "8", "2", "6", "a", "2", "c", "9", "e", "4", "7", "1", "5", "c", "d", "0", "f", "f", "3", "a", "4", "c", "f", "e", "4", "7", "0", "0", "4", "a", "1", "e", "9", "6", "a", "0", "7", "8", "b", "1", "5", "9", "0", "2">>>>,
     <<<<"f", "(", "t", "u", "p", "l", "e", "[", "2", "]", ",", "(", "b", "o", "o", "l", ",", "u", "i", "n", "t", "8", ")", "[", "]", ")">>,
       <<"c", "5", "f", "0", "c", "5", "f", "b", "a", "b", "7", "7", "f", "c", "8", "7", "8", "6", "8", "f", "b", "8", "8", "f", "f", "9", "d", "0", "3", "7", "c", "8", "7", "b", "a", "3", "9", "b", "5", "4", "d", "b", "a", "8", "1", "6", "7", "8", "7", "6", "6", "4", "9", "7", "d", "1", "e", "4", "3", "0", "1", "7", "3", "f">>>>,
     <<<<"f", "(", "t", "u", "p", "l", "e", "[", "2", "]", ",", "a", "d", "d", "r", "e", "s", "s", ")">>,
       <<"5", "3", "1", "a", "1", "6", "f", "8", "f", "6", "c", "0", "3", "d", "d", "e", "d", "b", "9", "b", "f", "9", "8", "f", "3", "6", "8", "9", "a", "6", "7", "e", "a", "1", "b", "3", "8", "2", "5", "a", "0", "2", "d", "8", "a", "4", "1", "8", "4", "4", "c", "2", "3", "a", "8", "0", "7", "3", "6", "8", "3", "4", "6", "5">>>>,
     <<<<"f", "(", "t", "u", "p", "l", "e", "[", "2", "]", ",", "t", "u", "p", "l", "e", "[", "2", "]", ")">>,
       <<"3", "a", "a", "2", "5", "5", "5", "b", "b", "6", "3", "0", "a", "6", "6", "c", "b", "2", "2", "5", "7", "6", "9", "f", "1", "f", "a", "a", "4", "0", "e", "3", "7", "2", "9", "0", "e", "2", "5", "2", "8", "b", "8", "4", "7", "3", "1", "f", "3", "8", "c", "9", "8", "9", "c", "d", "6", "5", "e", "2", "b", "b", "2", "b">>>>,
     <<<<"f", "(", "t", "u", "p", "l", "e", "[", "2", "]", ",", "u", "i", "n", "t", "2", "5", "6", ")">>,
       <<"3", "0", "8", "2", "9", "1", "9", "5", "a", "0", "0", "9", "1", "a", "0", "e", "1", "1", "f", "4", "8", "a", "0", "8", "e", "7", "4", "8", "6", "0", "e", "1", "1", "b", "e", "3", "5", "0", "a", "b", "6", "6", "9", "b", "3", "3", "4", "9", "e", "7", "9", "2", "7", "3", "c", "3", "0", "7", "c", "0", "c", "6", "4", "e">>>>,
     <<<<"f", "(", "u", "i", "n", "t", "2", "5", "6", ")">>,
       <<"b", "3", "d", "e", "6", "4", "8", "b", "0", "0", "1", "c", "0", "8", "a", "b", "8", "5", "7", "a", "f", "e", "5", "a", "9", "6", "3", "3", "8", "8", "7", "e", "7", "a", "4", "e", "2", "a", "4", "2", "9", "d", "1", "d", "8", "d", "4", "2", "3", "1", "2", "3", "8", "c", "1", "f", "f", "a", "e", "b", "2", "5", "6", "f">>>>,
     <<<<"f", "(", "u", "i", "n", "t", "2", "5", "6", ",", "(", "b", "o", "o", "l", ",", "u", "i", "n", "t", "8", ")", ")">>,
       <<"1", "7", "0", "4", "5", "9", "1", "7", "5", "5", "2", "a", "6", "e", "b", "1", "6", "6", "e", "7", "7", "3", "2", "8", "e", "f", "5", "5", "8", "4", "0", "0", "c", "4", "d", "7", "a", "0", "f", "c", "c", "0", "2", "d", "8", "1", "b", "a", "9", "f", "6", "e", "b", "d", "a", "1", "4", "5", "9", "b", "9", "d", "2", "e">>>>,
     <<<<"f", "(", "u", "i", "n", "t", "2", "5", "6", ",", "(", "b", "o", "o", "l", ",", "u", "i", "n", "t", "8", ")", "[", "2", "]", ")">>,
       <<"9", "9", "4", "a", "d", "3", "4", "a", "9", "7", "6", "7", "3", "d", "a", "9", "2", "b", "1", "a", "8", "a", "2", "4", "0", "1", "7", "e", "d", "1", "d", "2", "9", "f", "8", "f", "0", "9", "2", "7", "a", "e", "9", "b", "d", "f", "1", "f", "6", "7", "d", "3", "b", "8", "f", "a", "d", "4", "7", "f", "8", "2", "2", "c">>>>,
     <<<<"f", "(", "u", "i", "n", "t", "2", "5", "6", ",", "(", "b", "o", "o", "l", ",", "u", "i", "n", "t", "8", ")", "[", "]", ")">>,
       <<"8", "5", "5", "3", "2", "7", "7", "e", "2", "7", "4", "8", "e", "7", "f", "f", "e", "a", "7", "a", "9", "4", "4", "1", "f", "c", "a", "5", "5", "5", "7", "f", "5", "b", "e", "1", "2", "9", "4", "5", "5", "2", "5", "f", "b", "f", "b", "2", "5", "2", "f", "6", "d", "3", "f", "9", "1", "b", "1", "d", "d", "a", "f", "1">>>>,
     <<<<"f", "(", "u", "i", "n", "t", "2", "5", "6", ",", "a", "d", "d", "r", "e", "s", "s", ")">>,
       <<"5", "0", "3", "3", "6", "4", "5", "8", "a", "b", "3", "1", "6", "0", "5", "a", "e", "6", "c", "0", "7", "b", "e", "c", "6", "4", "c", "f", "8", "d", "6", "f", "5", "f", "9", "7", "b", "f", "3", "d", "a", "c", "0", "6", "a", "f", "2", "3", "9", "8", "c", "e", "b", "9", "0", "6", "1", "1", "7", "4", "3", "b", "b", "9">>>>,
     <<<<"f", "(", "u", "i", "n", "t", "2", "5", "6", ",", "t", "u", "p", "l", "e", "[", "2", "]", ")">>,
       <<"a", "c", "5", "b", "e", "a", "7", "c", "9", "b", "5", "6", "d", "3", "9", "8", "9", "b", "8", "a", "7", "5", "6", "c", "2", "7", "a", "e", "a", "7", "c", "6", "0", "f", "4", "3", "a", "8", "c", "e", "4", "f", "a", "1", "d", "7", "d", "d", "1", "d", "1", "f", "d", "e", "b", "7", "d", "1", "6", "3", "d", "4", "3", "4">>>>,
     <<<<"f", "(", "u", "i", "n", "t", "2", "5", "6", ",", "u", "i", "n", "t", "2", "5", "6", ")">>,
       <<"1", "3", "d", "1", "a", "a", "2", "e", "8", "1", "9", "b", "b", "5", "6", "6", "9", "8", "b", "4", "d", "4", "9", "5", "8", "1", "4", "7", "0", "6", "b", "b", "0", "b", "e", "5", "d", "0", "a", "e", "a", "4", "6", "e", "5", "e", "5", "b", "4", "b", "1", "c", "6", "8", "1", "8", "f", "3", "4", "e", "6", "0", "1", "a">>>>,
     <<<<"g", "2", "9", "0", "8", "4", "0", "0", "0", "9", "8", "5", "2", "7", "8", "8", "6", "e", "0", "f", "7", "0", "3", "0", "0", "6", "9", "8", "5", "7", "d", "2", "e", "4", "1", "6", "9", "e", "e", "7">>,
       <<"5", "0", "a", "a", "1", "1", "a", "a", "4", "3", "b", "f", "f", "0", "8", "8", "2", "c", "2", "f", "a", "5", "b", "2", "f", "c", "5", "c", "b", "c", "c", "c", "f", "d", "0", "1", "9", "b", "0", "1", "c", "c", "d", "5", "2", "0", "d", "c", "7", "0", "5", "4", "4", "d", "2", "7", "f", "d", "4", "3", "c", "c", "4", "d">>>>,
     <<<<"g", "a", "a", "a", "a", "a", "a", "a", "a", "a", "a", "a", "a", "a", "a", "a", "a", "a", "a", "a", "a", "a", "a", "a", "a", "a", "a", "a", "a", "a", "a", "a", "a", "a", "a", "a", "a", "a", "a", "a">>,
       <<"8", "c", "b", "4", "5", "6", "c", "6", "b", "5", "b", "b", "7", "2", "2", "7", "0", "5", "b", "f", "b", "a", "c", "5", "e", "9", "b", "0", "8", "3", "f", "2", "4", "2", "4", "b", "9", "f", "3", "3", "4", "b", "e", "8", "3", "5", "a", "e", "b", "5", "7", "c", "8", "3", "1", "a", "5", "e", "d", "9", "b", "2", "a", "f">>>>,
     <<<<"g", "a", "a", "e", "b", "6", "0", "5", "3", "f", "3", "e", "9", "4", "c", "9", "b", "9", "a", "0", "9", "f", "3", "3", "6", "6", "9", "4", "3", "5", "e", "7", "e", "f", "1", "b", "e", "a", "e", "d">>,
       <<"8", "b", "7", "4", "8", "a", "3", "f", "7", "5", "0", "0", "9", "c", "d", "b", "7", "a", "d", "f", "c", "d", "3", "8", "5", "e", "2", "4", "2", "5", "7", "1", "e", "f", "3", "a", "6", "4", "6", "0", "5", "3", "4", "2", "2", "4", "4", "b", "5", "8", "1", "2", "3", "4", "8", "8", "a", "0", "9", "6", "e", "e", "1", "4">>>>,
     <<<<"g", "e", "7", "0", "9", "f", "2", "1", "0", "2", "3", "0", "6", "2", "2", "0", "9", "2", "1", "0", "6", "0", "3", "1", "4", "7", "1", "5", "6", "2", "9", "0", "8", "0", "e", "2", "f", "b", "7", "7">>,
       <<"f", "9", "5", "5", "7", "8", "d", "4", "f", "d", "8", "2", "1", "9", "4", "3", "4", "3", "d", "9", "7", "9", "a", "4", "b", "f", "1", "1", "6", "3", "8", "1", "5", "9", "5", "4", "7", "e", "3", "1", "1", "e", "8", "6", "3", "6", "7", "8", "4", "a", "d", "a", "9", "0", "3", "a", "3", "a", "9", "1", "b", "d", "6", "e">>>>,
     <<<<"t", "r", "a", "n", "s", "f", "e", "r", "(", "a", "d", "d", "r", "e", "s", "s", ",", "u", "i", "n", "t", "2", "5", "6", " ", "a", "m", "o", "u", "n", "t", ")", " ", "r", "e", "t", "u", "r", "n", "s", ")">>,
       <<"3", "a", "b", "e", "8", "0", "2", "2", "f", "5", "1", "a", "7", "1", "9", "5", "c", "2", "6", "8", "0", "a", "2", "5", "d", "7", "7", "4", "2", "3", "a", "4", "0", "9", "4", "4", "5", "6", "c", "6", "3", "2", "8", "3", "1", "a", "5", "c", "7", "d", "3", "0", "7", "8", "f", "c", "a", "7", "c", "d", "1", "b", "e", "e">>>>,
     <<<<"t", "r", "a", "n", "s", "f", "e", "r", "(", "a", "d", "d", "r", "e", "s", "s", ",", "u", "i", "n", "t", "2", "5", "6", ")">>,
       <<"a", "9", "0", "5", "9", "c", "b", "b", "2", "a", "b", "0", "9", "e", "b", "2", "1", "9", "5", "8", "3", "f", "4", "a", "5", "9", "a", "5", "d", "0", "6", "2", "3", "a", "d", "e", "3", "4", "6", "d", "9", "6", "2", "b", "c", "d", "4", "e", "4", "6", "b", "1", "1", "d", "a", "0", "4", "7", "c", "9", "0", "4", "9", "b">>>>
    >>
\* KECCAK-TABLE-END

RECURSIVE CodeSumLoop(_, _, _)
CodeSumLoop(str, st, k) ==
    IF st.i > Len(str) THEN st
    ELSE IF k <= 1
    THEN [i |-> st.i + 1, sum |-> (31 * st.sum + CharCode(str[st.i])) % 65521]
    ELSE CodeSumLoop(str, CodeSumLoop(str, st, k \div 2), k - k \div 2)

CodeSum(str) == CodeSumLoop(str, [i |-> 1, sum |-> 0], Len(str) + 1).sum

UntabulatedDigest(str) ==
    [i \in 1..64 |-> HexDigitChars[((CodeSum(str) * (i + 6) + Len(str) + i * i) % 16) + 1]]

IsTabulated(str) == \E i \in 1..Len(KeccakTable) : KeccakTable[i][1] = str

keccak256ToHex(str) ==
    IF IsTabulated(str)
    THEN KeccakTable[CHOOSE i \in 1..Len(KeccakTable) : KeccakTable[i][1] = str][2]
    ELSE UntabulatedDigest(str)

\* keccak256(Buffer.from(str)): the 32 bytes of the digest
keccak256(str) == HexToBuffer(keccak256ToHex(str))

(***************************************************************************)
(* common.ts (address.js): checksum addresses.                             *)
(***************************************************************************)
\* /^(0x)?[0-9a-f]{40}$/i
MatchesAddressAnyCase(address) ==
    \/ Len(address) = 40 /\ AllHexDigits(address)
    \/ /\ Len(address) = 42
       /\ startsWith(toLowerCase(address), <<"0", "x">>)
       /\ AllHexDigits(SubSeq(address, 3, 42))

toChecksumAddressEvm(address, checkAddress) ==
    IF checkAddress /\ ~MatchesAddressAnyCase(address)
    THEN Thrown("Error")
    ELSE LET addr == IF checkAddress THEN substringFrom(toLowerCase(address), 2) ELSE address
             addressHash == keccak256ToHex(addr)
         IN  JString(<<"0", "x">> \o
                     [i \in 1..Len(addr) |->
                         IF i <= Len(addressHash) /\ CharCode(addressHash[i]) > 55
                         THEN toUpperCase(<<addr[i]>>)[1]
                         ELSE addr[i]])

\* isValidEvmAddressChecksum without its second test, the one that refuses an
\* uppercase letter where the digest's digit is below 8
isValidEvmAddressChecksumUpperOnly(address) ==
    IF Len(address) # 42 \/ ~startsWith(address, <<"0", "x">>)
    THEN FALSE
    ELSE \A i \in 1..40 :
             CharCode(keccak256ToHex(toLowerCase(substringFrom(address, 2)))[i]) > 55
                 => ~(CharCode(substringFrom(address, 2)[i]) > 96)

isValidEvmAddressChecksum(address) ==
    IF Len(address) # 42 \/ ~startsWith(address, <<"0", "x">>)
    THEN FALSE
    ELSE LET addr == substringFrom(address, 2)
             addressHash == keccak256ToHex(toLowerCase(addr))
         IN  \A i \in 1..40 :
                 IF CharCode(addressHash[i]) > 55
                 THEN ~(CharCode(addr[i]) > 96)
                 ELSE ~(CharCode(addr[i]) > 64 /\ CharCode(addr[i]) < 91)

IsLowerHex(s) == \A i \in 1..Len(s) : IsHexDigit(s[i]) /\ s[i] = toLowerCase(<<s[i]>>)[1]

IsUpperHex(s) == \A i \in 1..Len(s) : IsHexDigit(s[i]) /\ s[i] = toUpperCase(<<s[i]>>)[1]

\* the body of an address after an optional 0x or 0X
AfterPrefix(address) ==
    IF startsWith(address, <<"0", "x">>) \/ startsWith(address, <<"0", "X">>)
    THEN substringFrom(address, 2)
    ELSE address

\* address is a value: anything but a string is not valid
isValidEvmAddress(address, lenient) ==
    IF address.t # "string" THEN FALSE
    ELSE IF lenient
    THEN \/ \E body \in {address.s, AfterPrefix(address.s)} :
                Len(body) = 40 /\ (IsLowerHex(body) \/ IsUpperHex(body))
         \/ isValidEvmAddressChecksum(address.s)
    ELSE isValidEvmAddressChecksum(address.s)

(***************************************************************************)
(* encode.ts: the leaf encoders.  A result is JBuffer(32 bytes), a         *)
(* requiresPointer record, or Thrown.                                      *)
(***************************************************************************)
RequiresPointer(bytes) == [t |-> "requiresPointer", b |-> bytes]

\* value + "" for the values of the model
RECURSIVE ToStr(_)
ToStr(v) ==
    CASE v.t = "string" -> v.s
      [] v.t \in {"number", "bigint"} ->
            (IF v.neg THEN <<"-">> ELSE <<>>) \o BigToDec(v.mag)
      [] v.t = "boolean" -> IF v.bool THEN <<"t", "r", "u", "e">> ELSE <<"f", "a", "l", "s", "e">>
      [] v.t = "undefined" -> <<"u", "n", "d", "e", "f", "i", "n", "e", "d">>
      [] v.t = "null" -> <<"n", "u", "l", "l">>
      [] v.t = "nan" -> <<"N", "a", "N">>
      [] v.t = "buffer" -> Utf8String(v.b)
      [] v.t = "array" ->
            join([i \in 1..Len(v.e) |->
                     IF v.e[i].t \in {"undefined", "null"} THEN <<>> ELSE ToStr(v.e[i])],
                 <<",">>)
      [] OTHER -> <<"[", "o", "b", "j", "e", "c", "t", " ", "O", "b", "j", "e", "c", "t", "]">>

\* BigInt(Math.trunc(Number(num) || 0)) for a value that is no number, string or bigint
NumberOrZero(v) ==
    CASE v.t = "boolean" -> JBigInt(FALSE, IF v.bool THEN <<1>> ELSE <<>>)
      [] v.t \in {"buffer", "array"} ->
            LET r == Number(ToStr(v))
            IN  IF r.nan THEN JBigInt(FALSE, <<>>) ELSE JBigInt(FALSE, NatToBytes(r.n))
      [] OTHER -> JBigInt(FALSE, <<>>)

encodeInt(num) ==
    LET \* typeof num == "number": BigInt(Math.trunc(num || 0))
        OfNumber(n) == IF n.t = "number" THEN JBigInt(n.neg, n.mag)
                       ELSE IF n.t = "nan" THEN JBigInt(FALSE, <<>>)
                       ELSE n
        \* typeof num == "string": BigInt of the text before the first "."
        OfString(n) == IF n.t # "string" THEN n
                       ELSE IF indexOf(n.s, ".") >= 0
                       THEN StringToBigInt(substring(n.s, 0, indexOf(n.s, ".")))
                       ELSE StringToBigInt(n.s)
        \* typeof num != "bigint": BigInt(Math.trunc(Number(num) || 0))
        OfOther(n) == IF n.t \notin {"bigint", "throw"} THEN NumberOrZero(n) ELSE n
        \* the 256-bit word of a bigint, in two's complement below zero
        Word(n) == IF IsThrown(n) THEN n
                   ELSE IF n.neg
                   THEN IF BigLess(BigAdd(UINT256_MAX, <<1>>), n.mag)
                        THEN Thrown("RangeError")
                        ELSE JBuffer(PadLeft(BigSub(BigAdd(UINT256_MAX, <<1>>), n.mag), 32))
                   ELSE IF Len(n.mag) > 32
                   THEN Thrown("RangeError")
                   ELSE JBuffer(PadLeft(n.mag, 32))
    IN  Word(OfOther(OfString(OfNumber(num))))

encodeBoolean(bool) == IF Truthy(bool) THEN JBuffer(ONE_BYTE) ELSE JBuffer(NULL_BYTES)

\* The two regular expressions have fewer groups than the code reads, so a
\* numeric text always ends in a TypeError: sciNotation[4] is undefined and
\* BigInt(undefined) throws; fractionPart is undefined and .length throws.
encodeDecimal(num, decimalExponent) ==
    IF num.t = "bigint"
    THEN encodeInt(JBigInt(num.neg, BigMulPow10(num.mag, decimalExponent)))
    ELSE LET str == CASE num.t \in {"number", "nan", "string"} -> ToStr(num)
                      [] num.t \in {"undefined", "object"} -> ToStr(JNaN)
                      [] num.t = "null" -> <<"0">>
                      [] num.t = "boolean" -> IF num.bool THEN <<"1">> ELSE <<"0">>
                      [] OTHER -> LET r == Number(ToStr(num))
                                  IN  IF r.nan THEN ToStr(JNaN) ELSE NatToDigits(r.n)
         IN  IF trim(str) \in {<<>>, <<"N", "a", "N">>}
             THEN JBuffer(NULL_BYTES)
             ELSE Thrown("TypeError")

encodeAddress(maybeAddress) ==
    LET \* buffer.write(hex, 12, "hex") into the 32 zero bytes of Buffer.alloc
        Written(written) ==
            SubSeq(written, 1, IF Len(written) > 20 THEN 20 ELSE Len(written))
        Filled(w) == JBuffer(Zeros(12) \o w \o Zeros(20 - Len(w)))
        OfString(address) ==
            IF ~isValidEvmAddress(JString(address), TRUE)
            THEN Thrown("TypeError")
            ELSE Filled(Written(HexToBuffer(substringFrom(address, 2))))
    IN  IF maybeAddress.t = "buffer"
        THEN IF Len(maybeAddress.b) # 20
             THEN Thrown("TypeError")
             ELSE JBuffer(Zeros(12) \o maybeAddress.b)
        ELSE OfString(ToStr(maybeAddress))

\* typeof contractFunc.func == "string" and typeof contractFunc.func.name ==
\* "string" cannot both hold, so the validation always fails
validateContractFunc(contractFunc) == Thrown("TypeError")

encodeFunction(contractFunc) == validateContractFunc(contractFunc)

\* Buffer.from(maybeBuf), and Buffer.from(maybeBuf + "") where that throws
BufferFrom(maybeBuf) ==
    CASE maybeBuf.t = "string" ->
            IF startsWith(maybeBuf.s, <<"0", "x">>)
            THEN HexToBuffer(substringFrom(maybeBuf.s, 2))
            ELSE Utf8Bytes(maybeBuf.s)
      [] maybeBuf.t = "buffer" -> maybeBuf.b
      [] maybeBuf.t = "array" ->
            [i \in 1..Len(maybeBuf.e) |->
                IF maybeBuf.e[i].t = "number" /\ ~maybeBuf.e[i].neg
                THEN BytesToNat(maybeBuf.e[i].mag) % 256
                ELSE 0]
      [] OTHER -> Utf8Bytes(ToStr(maybeBuf))

encodeFixedBuffer(maybeBuf, expectedLength) ==
    LET Padded(buff) ==
            IF Len(buff) > 32 THEN Thrown("RangeError")
            ELSE JBuffer(buff \o Zeros(32 - Len(buff)))
    IN  Padded(BufferFrom(maybeBuf))

encodeBuffer(maybeBuf) ==
    LET WithLength(buff) ==
            IF Len(buff) = 0
            THEN RequiresPointer(<<>>)
            ELSE RequiresPointer(encodeInt(NumberOfNat(Len(buff))).b
                                     \o buff \o Zeros(Len(buff) % 32))
    IN  WithLength(BufferFrom(maybeBuf))

encodeString(str) == encodeBuffer(JBuffer(Utf8Bytes(ToStr(str))))

(***************************************************************************)
(* encode.ts: the encodeFunctions table.                                   *)
(***************************************************************************)
S_int == <<"i", "n", "t">>

S_uint == <<"u", "i", "n", "t">>

S_fixed == <<"f", "i", "x", "e", "d">>

S_ufixed == <<"u", "f", "i", "x", "e", "d">>

S_bytes == <<"b", "y", "t", "e", "s">>

S_byte == <<"b", "y", "t", "e">>

S_bool == <<"b", "o", "o", "l">>

S_address == <<"a", "d", "d", "r", "e", "s", "s">>

S_string == <<"s", "t", "r", "i", "n", "g">>

S_func == <<"f", "u", "n", "c">>

S_function == <<"f", "u", "n", "c", "t", "i", "o", "n">>

\* s is the decimal text ("" + i) of one of lo, lo + step, ..., hi
IsCount(s, lo, hi, step) ==
    /\ AllDigits(s)
    /\ s[1] # "0"
    /\ Len(s) <= 3
    /\ DigitsToNat(s) >= lo
    /\ DigitsToNat(s) <= hi
    /\ (DigitsToNat(s) - lo) % step = 0

\* s is i + "x" + ii with i in 8, 16 .. 256 and ii in 1 .. 80
IsMxN(s) ==
    LET x == indexOf(s, "x")
    IN  /\ x > 0
        /\ IsCount(substring(s, 0, x), 8, 256, 8)
        /\ IsCount(substringFrom(s, x + 1), 1, 80, 1)

EncodeHandler(fn, arg) == [t |-> "handler", fn |-> fn, arg |-> arg]

\* encodeFunctions[type]: a handler, Undefined for a key whose value is
\* undefined, or absent for a string that is no key of the table
encodeFunctions(type) ==
    CASE type \in {S_int, S_uint} -> EncodeHandler("encodeInt", 0)
      [] type = S_address -> EncodeHandler("encodeAddress", 0)
      [] type = S_bool -> EncodeHandler("encodeBoolean", 0)
      [] type = S_bytes -> EncodeHandler("encodeBuffer", 0)
      [] type = S_string -> EncodeHandler("encodeString", 0)
      [] type \in {S_func, S_function} -> EncodeHandler("encodeFunction", 0)
      [] startsWith(type, S_uint) /\ IsCount(substringFrom(type, 4), 8, 256, 8) ->
            EncodeHandler("encodeInt", 0)
      [] startsWith(type, S_int) /\ IsCount(substringFrom(type, 3), 8, 256, 8) ->
            EncodeHandler("encodeInt", 0)
      [] startsWith(type, S_fixed) /\ IsMxN(substringFrom(type, 5)) ->
            EncodeHandler("encodeDecimal",
                          DigitsToNat(substringFrom(type, lastIndexOf(type, "x") + 1)))
      [] startsWith(type, S_int) /\ IsMxN(substringFrom(type, 3)) ->
            EncodeHandler("encodeDecimal",
                          DigitsToNat(substringFrom(type, lastIndexOf(type, "x") + 1)))
      [] startsWith(type, S_bytes) /\ IsCount(substringFrom(type, 5), 1, 32, 1) ->
            EncodeHandler("encodeFixedBuffer", DigitsToNat(substringFrom(type, 5)))
      [] type = S_byte -> EncodeHandler("encodeFixedBuffer", 1)
      [] type = S_fixed -> EncodeHandler("encodeDecimal", 18)
      [] type = S_ufixed -> Undefined
      [] OTHER -> [t |-> "absent"]

\* encodeFunctions[innerType](value)
CallEncodeFunction(handler, value) ==
    CASE handler.t # "handler" -> Thrown("TypeError")
      [] handler.fn = "encodeInt" -> encodeInt(value)
      [] handler.fn = "encodeAddress" -> encodeAddress(value)
      [] handler.fn = "encodeBoolean" -> encodeBoolean(value)
      [] handler.fn = "encodeBuffer" -> encodeBuffer(value)
      [] handler.fn = "encodeString" -> encodeString(value)
      [] handler.fn = "encodeFunction" -> encodeFunction(value)
      [] handler.fn = "encodeDecimal" -> encodeDecimal(value, handler.arg)
      [] handler.fn = "encodeFixedBuffer" -> encodeFixedBuffer(value, handler.arg)

(***************************************************************************)
(* encode.ts: class EvmPayloadEncoder.  A method is an operator from the   *)
(* encoder to the encoder it leaves behind, or to Thrown.                  *)
(***************************************************************************)
\* constructor; zeroLengthPtrValue -1 is the null of __zeroLengthPtrValue
EvmPayloadEncoder(prepend) ==
    [t |-> "encoder",
     prepend |-> prepend,
     currentLength |-> 0,
     payloadSegments |-> <<>>,
     appendedHeapSegments |-> <<>>,
     appendedDynamicArray |-> <<>>,
     zeroLengthPtrValue |-> -1]

appendData(this, data) ==
    [this EXCEPT !.payloadSegments = Append(@, data),
                 !.currentLength = @ + Len(data)]

\* appendDynamicData without the update of currentLength
appendDynamicDataUncounted(this, data) ==
    [this EXCEPT !.appendedHeapSegments =
                     Append(@, [data |-> data, segmentIndex |-> Len(this.payloadSegments)]),
                 !.payloadSegments = Append(@, GURAD_BYTES)]

appendDynamicData(this, data) ==
    [this EXCEPT !.appendedHeapSegments =
                     Append(@, [data |-> data, segmentIndex |-> Len(this.payloadSegments)]),
                 !.payloadSegments = Append(@, GURAD_BYTES),
                 !.currentLength = @ + Len(GURAD_BYTES)]

RECURSIVE encodeTupleComponent(_, _, _)
RECURSIVE encodeTupleFrom(_, _, _, _)
RECURSIVE encodeElements(_, _, _, _, _)

\* for (i = from; i < count; i += 1) this.encodeTupleComponent(value[i], abiDef)
encodeElements(this, value, abiDef, from, count) ==
    IF IsThrown(this) \/ ~(from < count) THEN this
    ELSE encodeElements(encodeTupleComponent(this, GetIndex(value, from), abiDef),
                        value, abiDef, from + 1, count)

encodeDynamicArray(this, value, abiDef) ==
    LET Registered(newEncoder) ==
            IF IsThrown(newEncoder) THEN newEncoder
            ELSE [this EXCEPT !.appendedDynamicArray =
                                  Append(@, [encoder |-> newEncoder,
                                             arrayLength |-> Len(value.e),
                                             segmentIndex |-> Len(this.payloadSegments)]),
                              !.payloadSegments = Append(@, GURAD_BYTES),
                              !.currentLength = @ + Len(GURAD_BYTES)]
    IN  Registered(encodeElements(EvmPayloadEncoder(<<>>), value, abiDef, 0, Len(value.e)))

\* the loop of encodeTuple from index i on; abiDefs[i] is undefined past the
\* end of abiDefs, and normalizeTupleComponent(undefined) reads its .type
encodeTupleFrom(this, values, abiDefs, i) ==
    IF IsThrown(this) \/ ~(i < Len(values)) THEN this
    ELSE IF ~(i < Len(abiDefs)) THEN Thrown("TypeError")
    ELSE encodeTupleFrom(encodeTupleComponent(this, values[i + 1], abiDefs[i + 1]),
                         values, abiDefs, i + 1)

\* encodeTuple with a loop over abiDefs: a value for every descriptor
encodeTupleOverInputs(this, values, abiDefs) ==
    encodeTupleFrom(this, [i \in 1..Len(abiDefs) |->
                              IF i <= Len(values) THEN values[i] ELSE Undefined],
                    abiDefs, 0)

encodeTuple(this, values, abiDefs) == encodeTupleFrom(this, values, abiDefs, 0)

encodeTupleComponent(this, value, abiDefs0) ==
    LET \* the default branch of the switch: const result = encodeFunctions[innerType](value)
        Appended(result) ==
            IF IsThrown(result) THEN result
            ELSE IF result.t = "requiresPointer"
            THEN appendDynamicData(this, result.b)
            ELSE appendData(this, result.b)
        Encoded(abiDefs, arr, tupleComponents) ==
            IF arr.isArray
            THEN IF value.t # "array" THEN Thrown("Error")
                 ELSE IF arr.lengthIsNull
                 THEN encodeDynamicArray(this, value, [abiDefs EXCEPT !.type = arr.innerType])
                 ELSE encodeElements(this, value, [abiDefs EXCEPT !.type = arr.innerType],
                                     0, arr.arrayLength)
            ELSE IF arr.innerType = S_tuple
            THEN IF value.t # "array"
                 THEN IF value.t \in {"null", "undefined"}
                      THEN encodeTuple(this, <<>>, tupleComponents)
                      ELSE encodeTuple(this,
                                       [i \in 1..Len(tupleComponents) |->
                                           GetField(value, tupleComponents[i].name)],
                                       tupleComponents)
                 ELSE encodeTuple(this, value.e, tupleComponents)
            ELSE IF encodeFunctions(arr.innerType).t # "absent"
            THEN Appended(CallEncodeFunction(encodeFunctions(arr.innerType), value))
            ELSE Thrown("TypeError")
        Normalized(abiDefs) ==
            Encoded(abiDefs, encodedArrayType(abiDefs.type), abiDefs.components)
    IN  Normalized(normalizeTupleComponent(abiDefs0))

\* _zeroLengthPtrValue(): the encoder afterwards; the value returned is its
\* zeroLengthPtrValue field
zeroLengthPtrValue(this) ==
    IF this.zeroLengthPtrValue = -1
    THEN [this EXCEPT !.zeroLengthPtrValue = this.currentLength,
                      !.payloadSegments = Append(@, NULL_BYTES),
                      !.currentLength = @ + Len(NULL_BYTES)]
    ELSE this

\* Buffer.concat(list, totalLength)
BufferConcat(list, totalLength) ==
    LET all == Flatten(list)
    IN  IF Len(all) >= totalLength THEN SubSeq(all, 1, totalLength)
        ELSE all \o Zeros(totalLength - Len(all))

\* payloadSegments[segmentIndex] = encodeInt(n)
SetSegment(this, segmentIndex, n) ==
    [this EXCEPT !.payloadSegments[segmentIndex + 1] = encodeInt(NumberOfNat(n)).b]

\* the first while loop of payload(): the heap segments, last one first
RECURSIVE ResolveHeapSegments(_)
ResolveHeapSegments(this) ==
    IF this.appendedHeapSegments = <<>> THEN this
    ELSE LET n == Len(this.appendedHeapSegments)
             top == this.appendedHeapSegments[n]
             popped == [this EXCEPT !.appendedHeapSegments = SubSeq(@, 1, n - 1)]
             WithPointer(z) == SetSegment(z, top.segmentIndex, z.zeroLengthPtrValue)
         IN  IF Len(top.data) = 0
             THEN ResolveHeapSegments(WithPointer(zeroLengthPtrValue(popped)))
             ELSE ResolveHeapSegments(
                      [SetSegment(popped, top.segmentIndex, popped.currentLength)
                          EXCEPT !.payloadSegments = Append(@, top.data),
                                 !.currentLength = @ + Len(top.data)])

RECURSIVE payload(_)
RECURSIVE ResolveDynamicArrays(_)
\* the second while loop of payload(): the dynamic arrays, last one first
ResolveDynamicArrays(this) ==
    IF this.appendedDynamicArray = <<>> THEN this
    ELSE LET n == Len(this.appendedDynamicArray)
             top == this.appendedDynamicArray[n]
             popped == [this EXCEPT !.appendedDynamicArray = SubSeq(@, 1, n - 1)]
             WithPointer(z) == SetSegment(z, top.segmentIndex, z.zeroLengthPtrValue)
             WithArray(innerEncoded) ==
                 [SetSegment(popped, top.segmentIndex, popped.currentLength)
                     EXCEPT !.payloadSegments =
                                @ \o <<encodeInt(NumberOfNat(top.arrayLength)).b,
                                       innerEncoded>>,
                            !.currentLength = @ + UINT256_SIZE + Len(innerEncoded)]
         IN  IF top.arrayLength = 0
             THEN ResolveDynamicArrays(WithPointer(zeroLengthPtrValue(popped)))
             ELSE ResolveDynamicArrays(WithArray(payload(top.encoder)))

\* the bytes payload() returns
payload(this) ==
    LET Concat(resolved) ==
            IF Len(resolved.prepend) > 0
            THEN BufferConcat(<<resolved.prepend>> \o resolved.payloadSegments,
                              resolved.currentLength + Len(resolved.prepend))
            ELSE BufferConcat(resolved.payloadSegments, resolved.currentLength)
    IN  Concat(ResolveDynamicArrays(ResolveHeapSegments(this)))

IsComponent(evmType) == "type" \in DOMAIN evmType

\* evmType is a JString or a component
encodeEvmType(value, evmType) ==
    LET Payload(encoder) == IF IsThrown(encoder) THEN encoder ELSE JBuffer(payload(encoder))
    IN  Payload(encodeTupleComponent(
                    EvmPayloadEncoder(<<>>), value,
                    IF IsComponent(evmType) THEN evmType
                    ELSE normalizeTupleComponent(Component(<<>>, evmType.s))))

\* funcDefinition is a JString or a definition
encodeEvmFuncCall(funcDefinition, parameters) ==
    LET Payload(encoder) == IF IsThrown(encoder) THEN encoder ELSE JBuffer(payload(encoder))
        Call(def) ==
            IF def.type = "receive" THEN JBuffer(<<>>)
            ELSE Payload(
                     encodeTuple(
                         EvmPayloadEncoder(
                             IF def.type = "fallback" THEN <<255, 255, 255, 255>>
                             ELSE SubSeq(keccak256(def.name
                                                       \o tupleComponentsTypeSignature(def.inputs)),
                                         1, 4)),
                         parameters, def.inputs))
    IN  Call(IF "inputs" \in DOMAIN funcDefinition THEN funcDefinition
             ELSE functionSignatureToABIDefinition(funcDefinition.s))

(***************************************************************************)
(* encode.ts: class EvmPayloadDecoder.  A leaf method is an operator from  *)
(* the decoder to the value it returns, or to Thrown; the caller advances  *)
(* the index by the UINT256_SIZE every leaf method adds to it.  A width    *)
(* is passed in bits (byteLength * 8) so that a width that is no multiple  *)
(* of 8 stays exact; NaNBits is the width NaN.                             *)
(***************************************************************************)
NaNBits == 0 - 1

\* data.subarray(start, end): negative ends count from the end of the buffer
subarray(data, start, end) ==
    LET s0 == Clamp(IF start < 0 THEN start + Len(data) ELSE start, Len(data))
        e0 == Clamp(IF end < 0 THEN end + Len(data) ELSE end, Len(data))
    IN  IF s0 < e0 THEN SubSeq(data, s0 + 1, e0) ELSE <<>>

\* data.readInt32LE(offset) as [t |-> "int", n |-> value]
readInt32LE(data, offset) ==
    IF offset < 0 \/ offset + 4 > Len(data) THEN Thrown("RangeError")
    ELSE [t |-> "int",
          n |-> data[offset + 1] + 256 * data[offset + 2] + 65536 * data[offset + 3]
                + 16777216 * (IF data[offset + 4] >= 128
                              THEN data[offset + 4] - 256
                              ELSE data[offset + 4])]

decodeBoolean(this) ==
    JBool(subarray(this.data, this.index, this.index + UINT256_SIZE) # NULL_BYTES)

\* readUIntBE(offset, byteLength) wants a whole byteLength from 1 to 6 and
\* all its bytes inside the buffer
decodeUInt(this, bits) ==
    IF bits \notin {8, 16, 24, 32, 40, 48}
          \/ this.index + UINT256_SIZE > Len(this.data)
    THEN Thrown("RangeError")
    ELSE JNumber(FALSE,
                 StripZeros(SubSeq(this.data, this.index + UINT256_SIZE - (bits \div 8) + 1,
                                   this.index + UINT256_SIZE)))

decodeInt(this, bits) ==
    LET u == decodeUInt(this, bits)
    IN  IF IsThrown(u) THEN u
        ELSE IF ~BigLess(u.mag, Pow2Bytes(bits - 1))
        THEN JNumber(TRUE, BigSub(Pow2Bytes(bits), u.mag))
        ELSE u

\* byteLength is a whole number of bytes, or NaNBits
decodeFixedByteArray(this, byteLength, leftPadded) ==
    LET n == IF byteLength > 32 THEN 32 ELSE byteLength
    IN  IF leftPadded
        THEN subarray(this.data,
                      IF n = NaNBits THEN 0 ELSE this.index + UINT256_SIZE - n,
                      this.index + UINT256_SIZE)
        ELSE subarray(this.data, this.index, IF n = NaNBits THEN 0 ELSE this.index + n)

\* "0x" + buffer is the text of the bytes, not their hex digits; a fractional
\* byteLength makes subarray start at the truncated offset
decodeBigUInt(this, bits) ==
    StringToBigInt(<<"0", "x">>
                       \o Utf8String(decodeFixedByteArray(this, (bits + 7) \div 8, TRUE)))

decodeBigInt(this, bits) ==
    LET Signed(result) ==
            IF IsThrown(result) THEN result
            ELSE IF ~BigLess(result.mag, Pow2Bytes(bits - 1))
            THEN IF BigLess(result.mag, Pow2Bytes(bits))
                 THEN JBigInt(TRUE, BigSub(Pow2Bytes(bits), result.mag))
                 ELSE JBigInt(FALSE, BigSub(result.mag, Pow2Bytes(bits)))
            ELSE result
    IN  Signed(decodeBigUInt(this, bits))

\* a number divided by 10 ** decimalExponent: a number when the division is
\* exact, else the fraction mag / 10 ** exp in lowest powers of ten
RECURSIVE DivPow10(_, _)
DivPow10(v, decimalExponent) ==
    IF decimalExponent = 0 \/ v.mag = <<>> THEN JNumber(v.neg, v.mag)
    ELSE IF BigModSmall(v.mag, 10) = 0
    THEN DivPow10(JNumber(v.neg, BigDivSmall(v.mag, 10)), decimalExponent - 1)
    ELSE [t |-> "fraction", neg |-> v.neg, mag |-> v.mag, exp |-> decimalExponent]

decodeUDecimal(this, bits, decimalExponent) ==
    LET v == decodeUInt(this, bits)
    IN  IF IsThrown(v) THEN v ELSE DivPow10(v, decimalExponent)

decodeDecimal(this, bits, decimalExponent) ==
    LET Divided(v) == IF IsThrown(v) THEN v ELSE DivPow10(v, decimalExponent)
    IN  Divided(decodeInt(this, bits))

\* result.substring(0, decimalPos) + "." + result.substring(decimalPos)
PointAt(result, decimalExponent) ==
    substring(result, 0, Len(result) - decimalExponent) \o <<".">>
        \o substringFrom(result, Len(result) - decimalExponent)

decodeBigUDecimal(this, bits, decimalExponent) ==
    LET Pointed(v) == IF IsThrown(v) THEN v ELSE JString(PointAt(ToStr(v), decimalExponent))
    IN  Pointed(decodeBigUInt(this, bits))

decodeBigDecimal(this, bits, decimalExponent) ==
    LET Pointed(v) == IF IsThrown(v) THEN v ELSE JString(PointAt(ToStr(v), decimalExponent))
    IN  Pointed(decodeBigInt(this, bits))

decodeAddress(this) ==
    toChecksumAddressEvm(<<"0", "x">> \o Utf8String(decodeFixedByteArray(this, 20, TRUE)), TRUE)

\* the offset a pointer word refers to, or Thrown: decodeUInt(6) plus
\* arrayPointerOffset, checked against data.length, plus UINT256_SIZE
PointerTarget(this) ==
    LET ptr == decodeUInt(this, 48)
    IN  IF IsThrown(ptr) THEN ptr
        ELSE IF Len(ptr.mag) > 3
                  \/ BytesToNat(ptr.mag) + this.arrayPointerOffset >= Len(this.data)
        THEN Thrown("RangeError")
        ELSE [t |-> "int", n |-> BytesToNat(ptr.mag) + this.arrayPointerOffset + UINT256_SIZE]

decodeBuffer(this) ==
    LET Slice(bufferStartOffset, bufferLength) ==
            IF IsThrown(bufferLength) THEN bufferLength
            ELSE IF bufferLength.n > Len(this.data) - bufferStartOffset.n
            THEN Thrown("RangeError")
            ELSE JBuffer(subarray(this.data, bufferStartOffset.n,
                                  bufferStartOffset.n + bufferLength.n))
        At(bufferStartOffset) ==
            IF IsThrown(bufferStartOffset) THEN bufferStartOffset
            ELSE Slice(bufferStartOffset, readInt32LE(this.data, bufferStartOffset.n - 4))
    IN  At(PointerTarget(this))

decodeString(this) ==
    LET Text(buf) == IF IsThrown(buf) THEN buf ELSE JString(Utf8String(buf.b))
    IN  Text(decodeBuffer(this))

\* Number(text) * 8 / 8 in bits: the width a type name carries, or NaNBits
WidthBits(text) == IF Number(text).nan THEN NaNBits ELSE Number(text).n

\* resultObject[name] = result
SetProperty(object, name, result) ==
    [k \in DOMAIN object \cup {name} |-> IF k = name THEN result ELSE object[k]]

\* Object.create(null)
EmptyObject == [k \in {} |-> Undefined]

\* the placement that keys every result of a struct decoder, named or not
PlaceResultKeyed(this, abiDef, result) ==
    IF this.decodeType = "struct"
    THEN [this EXCEPT !.resultObject = SetProperty(@, abiDef.name, result)]
    ELSE [this EXCEPT !.resultArray = Append(@, result)]

\* the tail of decodeTupleComponent: where a decoded value is put
PlaceResult(this, abiDef, result) ==
    IF this.decodeType = "struct" /\ abiDef.name # <<>>
    THEN [this EXCEPT !.resultObject = SetProperty(@, abiDef.name, result)]
    ELSE [this EXCEPT !.resultArray = Append(@, result)]

\* new Array(arrayLength).fill(innerAbiDef): an array the data cannot back is
\* cut after the elements that can still start inside the buffer
FilledArray(data, arrayLength, innerAbiDef) ==
    [i \in 1..(IF arrayLength > (Len(data) \div UINT256_SIZE) + 1
               THEN (Len(data) \div UINT256_SIZE) + 1
               ELSE arrayLength) |-> innerAbiDef]

\* innerDecoder.resultArray of such an array: its elements, or the elements
\* decoded before the cut and the length of the whole
FilledResult(inner, arrayLength) ==
    IF Len(inner.resultArray) = arrayLength THEN JArray(inner.resultArray)
    ELSE [t |-> "longarray", e |-> inner.resultArray, length |-> arrayLength]

\* the default branch of the switch for a type that is no array: the value,
\* or Thrown; skip is set where no method is called and the index stays
DecodeByPrefix(this, innerType) ==
    IF startsWith(innerType, S_uint)
    THEN LET bits == WidthBits(substringFrom(innerType, 4))
         IN  IF bits > 48 THEN decodeBigUInt(this, bits) ELSE decodeUInt(this, bits)
    ELSE IF startsWith(innerType, S_int)
    THEN LET bits == WidthBits(substringFrom(innerType, 3))
         IN  IF bits > 48 THEN decodeBigInt(this, bits) ELSE decodeInt(this, bits)
    ELSE IF startsWith(innerType, S_bytes)
    THEN JBuffer(decodeFixedByteArray(this, WidthBits(substringFrom(innerType, 5)), FALSE))
    ELSE IF startsWith(innerType, S_fixed)
    THEN LET sep == indexOf(innerType, "x")
             bits == WidthBits(substring(innerType, 5, sep))
             decimalExponent == Number(substringFrom(innerType, sep + 1))
         IN  IF bits > 48
             THEN decodeBigDecimal(this, bits, decimalExponent.n)
             ELSE decodeDecimal(this, bits, decimalExponent.n)
    ELSE IF startsWith(innerType, S_ufixed)
    THEN LET sep == indexOf(innerType, "x")
             bits == WidthBits(substring(innerType, 6, sep))
             decimalExponent == Number(substringFrom(innerType, sep + 1))
         IN  IF bits > 48
             THEN decodeBigUDecimal(this, bits, decimalExponent.n)
             ELSE decodeUDecimal(this, bits, decimalExponent.n)
    ELSE [t |-> "skip"]

\* the switch for a type that is neither an array nor "tuple"
DecodeLeaf(this, abiDef, innerType) ==
    CASE abiDef.type = S_address -> decodeAddress(this)
      [] abiDef.type = S_bool -> decodeBoolean(this)
      [] abiDef.type = S_uint -> decodeBigUInt(this, 256)
      [] abiDef.type = S_int -> decodeBigInt(this, 256)
      [] abiDef.type = S_fixed -> decodeBigDecimal(this, 128, 18)
      [] abiDef.type = S_ufixed -> decodeBigUDecimal(this, 128, 18)
      [] abiDef.type \in {S_func, S_function} -> JBuffer(decodeFixedByteArray(this, 24, FALSE))
      [] abiDef.type = S_byte -> Undefined
      [] abiDef.type = S_bytes -> decodeBuffer(this)
      [] abiDef.type = S_string -> decodeString(this)
      [] OTHER -> DecodeByPrefix(this, innerType)

RECURSIVE decodeTupleComponent(_, _)
RECURSIVE DecodeComponents(_, _, _)
\* the loop of the constructor from abiDefs[i] on
DecodeComponents(this, abiDefs, i) ==
    IF IsThrown(this) \/ ~(i < Len(abiDefs)) THEN this
    ELSE DecodeComponents(decodeTupleComponent(this, abiDefs[i + 1]), abiDefs, i + 1)

\* new EvmPayloadDecoder(...): the decoder the constructor leaves, or Thrown
EvmPayloadDecoder(data, abiDefs, decodeType, initialIndex, arrayPointerOffset) ==
    DecodeComponents([t |-> "decoder",
                      data |-> data,
                      index |-> initialIndex,
                      arrayPointerOffset |-> arrayPointerOffset,
                      decodeType |-> decodeType,
                      resultArray |-> <<>>,
                      resultObject |-> EmptyObject],
                     abiDefs, 0)

HasNamed(components) == \E i \in 1..Len(components) : Len(components[i].name) > 0

decodeTupleComponent(this, abiDef0) ==
    LET advanced == [this EXCEPT !.index = @ + UINT256_SIZE]
        \* a pointer to an array: its elements are decoded by a decoder of their own
        Pointed(abiDef, innerAbiDef, arrayStartOffset, arrayLength) ==
            LET Elements(innerDecoder) ==
                    IF IsThrown(innerDecoder) THEN innerDecoder
                    ELSE PlaceResult(advanced, abiDef,
                                     FilledResult(innerDecoder, arrayLength.n))
            IN  IF IsThrown(arrayLength) THEN arrayLength
                ELSE IF arrayLength.n < 0 THEN Thrown("RangeError")
                ELSE Elements(EvmPayloadDecoder(this.data,
                                                FilledArray(this.data, arrayLength.n,
                                                            innerAbiDef),
                                                "array", arrayStartOffset.n,
                                                arrayStartOffset.n))
        PointedAt(abiDef, innerAbiDef, arrayStartOffset) ==
            IF IsThrown(arrayStartOffset) THEN arrayStartOffset
            ELSE Pointed(abiDef, innerAbiDef, arrayStartOffset,
                         readInt32LE(this.data, arrayStartOffset.n - 4))
        \* an array or a tuple decoded in place by a decoder of its own
        InPlace(abiDef, innerDecoder) ==
            IF IsThrown(innerDecoder) THEN innerDecoder
            ELSE PlaceResult([this EXCEPT !.index = innerDecoder.index], abiDef,
                             IF innerDecoder.decodeType = "array"
                             THEN JArray(innerDecoder.resultArray)
                             ELSE JObject(innerDecoder.resultObject))
        Leaf(abiDef, result) ==
            IF IsThrown(result) THEN result
            ELSE IF result.t = "skip" THEN PlaceResult(this, abiDef, Undefined)
            ELSE PlaceResult(advanced, abiDef, result)
        Decoded(abiDef, arr) ==
            IF arr.isArray
            THEN IF ~arr.lengthIsNull
                 THEN PointedAt(abiDef, [abiDef EXCEPT !.type = arr.innerType],
                                PointerTarget(this))
                 ELSE InPlace(abiDef,
                              EvmPayloadDecoder(this.data,
                                                <<[abiDef EXCEPT !.type = arr.innerType]>>,
                                                "array", this.index, this.arrayPointerOffset))
            ELSE IF abiDef.type = S_tuple
            THEN InPlace(abiDef,
                         EvmPayloadDecoder(this.data, abiDef.components,
                                           IF HasNamed(abiDef.components)
                                           THEN "struct" ELSE "array",
                                           this.index, this.arrayPointerOffset))
            ELSE Leaf(abiDef, DecodeLeaf(this, abiDef, arr.innerType))
        Normalized(abiDef) == Decoded(abiDef, encodedArrayType(abiDef.type))
    IN  Normalized(normalizeTupleComponent(abiDef0))

\* evmType is a JString or a component
decodeEvmType(data, evmType) ==
    LET Result(abiDef, decoder) ==
            IF IsThrown(decoder) THEN decoder
            ELSE IF abiDef.type = S_tuple
            THEN (IF ~HasNamed(abiDef.components)
                  THEN JArray(decoder.resultArray)
                  ELSE JObject(decoder.resultObject))
            ELSE GetIndex(JArray(decoder.resultArray), 0)
        Decoded(abiDef) ==
            Result(abiDef,
                   EvmPayloadDecoder(data, <<abiDef>>,
                                     IF abiDef.type = S_tuple /\ HasNamed(abiDef.components)
                                     THEN "struct" ELSE "array",
                                     0, 0))
    IN  Decoded(IF IsComponent(evmType) THEN evmType ELSE eVMTypeToComponent(evmType.s))

decodeEvmOutputAsArray(data, output) ==
    LET Result(decoder) == IF IsThrown(decoder) THEN decoder ELSE JArray(decoder.resultArray)
    IN  Result(EvmPayloadDecoder(data, output, "array", 0, 0))

decodeEvmOutputAsStruct(buffer, output) ==
    LET Result(decoder) == IF IsThrown(decoder) THEN decoder ELSE JObject(decoder.resultObject)
    IN  Result(EvmPayloadDecoder(buffer, output, "struct", 0, 0))

(***************************************************************************)
(* The inputs of the calls.  Every bound of the input sets is a            *)
(* definition of its own.                                                  *)
(***************************************************************************)
MaxParams == 2

MaxOutputs == 1

\* the sequences over S of length lo .. hi
SeqsOf(S, lo, hi) == UNION {[1..n -> S] : n \in lo..hi}

\* a number, as callers write it
N(n) == NumberOfInt(n)

ParamTexts == {<<"a", "d", "d", "r", "e", "s", "s">>, <<"u", "i", "n", "t", "2", "5", "6">>, <<"(", "b", "o", "o", "l", ",", "a", "d", "d", "r", "e", "s", "s", ")">>}

OutputTexts == {<<"b", "o", "o", "l">>, <<"u", "i", "n", "t", "2", "5", "6">>}

ModifierTexts == {<<>>, <<"v", "i", "e", "w">>}

SeparatorTexts == {<<",">>, <<",", " ">>}

\* "name(T1,...,Tn) modifiers returns (U1,...,Um)"
SignatureText(name, ins, sep, mods, hasOutputs, outs) ==
    name \o <<"(">> \o join(ins, sep) \o <<")">>
        \o (IF mods = <<>> THEN <<>> ELSE <<" ">> \o mods)
        \o (IF hasOutputs THEN <<" ", "r", "e", "t", "u", "r", "n", "s", " ", "(">> \o join(outs, sep) \o <<")">> ELSE <<>>)

Signature(name, ins, sep, mods, hasOutputs, outs, balanced, text) ==
    [t |-> "sig", name |-> name, inputs |-> ins, modifiers |-> mods,
     hasOutputs |-> hasOutputs, outputs |-> outs, balanced |-> balanced, text |-> text]

BalancedSignatures ==
    {Signature(<<"t", "r", "a", "n", "s", "f", "e", "r">>, ins, sep, mods, outs.has, outs.list, TRUE,
               SignatureText(<<"t", "r", "a", "n", "s", "f", "e", "r">>, ins, sep, mods, outs.has, outs.list)) :
        ins \in SeqsOf(ParamTexts, 0, MaxParams),
        sep \in SeparatorTexts,
        mods \in ModifierTexts,
        outs \in {[has |-> FALSE, list |-> <<>>]}
                     \cup {[has |-> TRUE, list |-> l] : l \in SeqsOf(OutputTexts, 0, MaxOutputs)}}

\* signatures without a name: no input list at all (receive), and an input
\* list (fallback)
UnnamedSignatures ==
    {Signature(<<>>, <<>>, <<",">>, <<>>, FALSE, <<>>, TRUE, <<>>),
     Signature(<<>>, <<>>, <<",">>, <<"p", "a", "y", "a", "b", "l", "e">>, FALSE, <<>>, TRUE, <<" ", "p", "a", "y", "a", "b", "l", "e">>)}
        \cup {Signature(<<>>, ins, <<",">>, mods, FALSE, <<>>, TRUE,
                        SignatureText(<<>>, ins, <<",">>, mods, FALSE, <<>>)) :
                 ins \in SeqsOf(ParamTexts, 0, 1), mods \in {<<>>, <<"p", "a", "y", "a", "b", "l", "e">>}}

\* a signature that lost its last close-paren, or got one too many
UnbalancedTexts(text) == {SubSeq(text, 1, Len(text) - 1), text \o <<")">>}

UnbalancedSignatures ==
    UNION {{Signature(sig.name, sig.inputs, <<",">>, <<>>, FALSE, <<>>, FALSE, text) :
               text \in UnbalancedTexts(sig.text)} :
           sig \in {b \in BalancedSignatures :
                       /\ b.inputs # <<>>
                       /\ b.text = SignatureText(b.name, b.inputs, <<",">>, <<>>, FALSE, <<>>)}}

\* tuple members as they are written: a type, and a name after a space when
\* the member has one
WrittenMember(type, name) ==
    [type |-> type, name |-> name,
     text |-> IF name = <<>> THEN type ELSE type \o <<" ">> \o name]

WrittenMembers ==
    {WrittenMember(<<"u", "i", "n", "t", "2", "5", "6">>, <<"a", "m", "o", "u", "n", "t">>), WrittenMember(<<"a", "d", "d", "r", "e", "s", "s">>, <<"t", "o">>),
     WrittenMember(<<"u", "i", "n", "t", "8", "[", "]">>, <<"x", "s">>), WrittenMember(<<"b", "o", "o", "l">>, <<>>),
     WrittenMember(<<"(", "b", "o", "o", "l", " ", "o", "k", ",", " ", "u", "i", "n", "t", "8", " ", "n", ")">>, <<>>)}

\* type strings handed to eVMTypeToComponent, balanced and not
TypeTexts ==
    {<<"u", "i", "n", "t", "2", "5", "6">>, <<"u", "i", "n", "t", "2", "5", "6", "[", "]", "[", "2", "]">>, <<"(", "u", "i", "n", "t", "2", "5", "6", ",", "(", "b", "o", "o", "l", ",", "a", "d", "d", "r", "e", "s", "s", ")", ")">>, <<"(", "u", "i", "n", "t", "2", "5", "6", " ", "a", ",", "b", "o", "o", "l", " ", "b", ")">>,
     <<"(", "u", "i", "n", "t", "2", "5", "6", ",", "(", "b", "o", "o", "l", ",", "a", "d", "d", "r", "e", "s", "s", ")">>, <<"u", "i", "n", "t", "2", "5", "6", ")">>, <<"(", "(", "b", "o", "o", "l", ")">>, <<"(", "b", "o", "o", "l", ")", ")">>}

\* parentheses of a text are balanced: no close before its open, none left open
Depth(text, i) ==
    Cardinality({j \in 1..i : text[j] = "("}) - Cardinality({j \in 1..i : text[j] = ")"})

IsBalanced(text) ==
    /\ Depth(text, Len(text)) = 0
    /\ \A i \in 1..Len(text) : Depth(text, i) >= 0

MaxStringLen == 2

MaxBytesLen == 2

MaxInner == 2

MaxDynamic == 2

\* a call of encodeEvmType(value, type) whose result is decoded as readAs
Case(type, value, readAs) == [type |-> type, value |-> value, readAs |-> readAs]

\* the widths M of intM and uintM
Widths == {8 * k : k \in 1..32}

IntType(M) == JString(S_int \o NatToDigits(M))

UIntType(M) == JString(S_uint \o NatToDigits(M))

\* 2^k - 1 as a magnitude
Pow2Minus1(k) == BigSub(Pow2Bytes(k), <<1>>)

\* -1 and -2^(M-1) as intM, read back as intM and as uintM; 1 and the
\* largest value of each type
IntegerCases ==
    UNION {{Case(IntType(M), JBigInt(TRUE, <<1>>), IntType(M)),
            Case(IntType(M), JBigInt(TRUE, <<1>>), UIntType(M)),
            Case(IntType(M), JBigInt(TRUE, Pow2Bytes(M - 1)), IntType(M)),
            Case(IntType(M), JBigInt(TRUE, Pow2Bytes(M - 1)), UIntType(M)),
            Case(IntType(M), JBigInt(FALSE, <<1>>), IntType(M)),
            Case(IntType(M), JBigInt(FALSE, Pow2Minus1(M - 1)), IntType(M)),
            Case(UIntType(M), JBigInt(FALSE, <<1>>), UIntType(M)),
            Case(UIntType(M), JBigInt(FALSE, Pow2Minus1(M)), UIntType(M))} : M \in Widths}

SameType(type, values) == {Case(JString(type), v, JString(type)) : v \in values}

LowerAddress == JString(<<"0", "x", "0", "0", "1", "1", "2", "2", "3", "3", "4", "4", "5", "5", "6", "6", "7", "7", "8", "8", "9", "9", "a", "a", "b", "b", "c", "c", "d", "d", "e", "e", "f", "f", "0", "0", "1", "1", "2", "2", "3", "3">>)

LeafCases ==
    SameType(S_bool, {JBool(TRUE), JBool(FALSE)})
        \cup SameType(S_string, {JString([i \in 1..n |-> "a"]) : n \in 0..MaxStringLen})
        \cup SameType(S_bytes,
                      {JBuffer([i \in 1..n |-> i]) : n \in (0..MaxBytesLen) \cup {31, 32, 33}})
        \cup SameType(<<"b", "y", "t", "e", "s", "2">>, {JBuffer(<<1, 2>>)})
        \cup SameType(<<"b", "y", "t", "e", "s", "3", "2">>, {JBuffer([i \in 1..32 |-> i])})
        \cup SameType(S_address, {JBuffer([i \in 1..20 |-> i]), LowerAddress})
        \cup SameType(<<"f", "i", "x", "e", "d", "1", "2", "8", "x", "2">>, {JBigInt(FALSE, <<5>>), JBigInt(TRUE, <<5>>)})
        \cup SameType(<<"u", "f", "i", "x", "e", "d", "1", "2", "8", "x", "1", "8">>, {JBigInt(FALSE, <<5>>)})

\* the array <<first, first + 1, ...>> of n numbers
NumberArray(first, n) == JArray([i \in 1..n |-> N(first + i - 1)])

ArrayCases ==
    SameType(<<"u", "i", "n", "t", "8", "[", "]">>, {NumberArray(1, n) : n \in 0..MaxInner})
        \cup SameType(<<"u", "i", "n", "t", "8", "[", "2", "]">>, {NumberArray(1, 2)})
        \cup SameType(<<"b", "o", "o", "l", "[", "2", "]">>, {JArray(<<JBool(TRUE), JBool(FALSE)>>)})
        \cup SameType(<<"u", "i", "n", "t", "2", "5", "6", "[", "]", "[", "2", "]">>,
                      {JArray(<<NumberArray(1, la), NumberArray(11, lb)>>) :
                          la \in 0..MaxInner, lb \in 0..MaxInner})

\* dynamic members of a tuple: [type, value]
DynamicMembers ==
    {[type |-> S_string, value |-> JString(<<"a">>)],
     [type |-> S_string, value |-> JString(<<"b", "c">>)],
     [type |-> S_string, value |-> JString(<<>>)],
     [type |-> S_bytes, value |-> JBuffer(<<1>>)],
     [type |-> <<"u", "i", "n", "t", "8", "[", "]">>, value |-> NumberArray(1, 2)]}

\* the tuple type "(T1,...,Tn)" of members and the array of their values
TupleOf(members) ==
    Case(JString(<<"(">> \o join([i \in 1..Len(members) |-> members[i].type], <<",">>) \o <<")">>),
         JArray([i \in 1..Len(members) |-> members[i].value]),
         JString(<<"(">> \o join([i \in 1..Len(members) |-> members[i].type], <<",">>) \o <<")">>))

DynamicTupleCases == {TupleOf(members) : members \in SeqsOf(DynamicMembers, 2, MaxDynamic)}

MaxMembers == 2

MaxDepth == 1

MaxFixedLen == 2

MaxNesting == 2

MaxBody == 3

MaxInputs == 2

\* a member of a tuple: its descriptor and its value
Member(abi, value) == [abi |-> abi, value |-> value]

BoolAndUInt8 == <<Component(<<>>, S_bool), Component(<<>>, <<"u", "i", "n", "t", "8">>)>>

\* static members: leaves, fixed arrays of a leaf and a fixed array of tuples
StaticMembers ==
    {Member(Component(<<>>, S_bool), JBool(TRUE)),
     Member(Component(<<>>, <<"u", "i", "n", "t", "8">>), N(7)),
     Member(Component(<<>>, <<"i", "n", "t", "2", "5", "6">>), JBigInt(TRUE, <<1>>)),
     Member(Component(<<>>, <<"b", "y", "t", "e", "s", "2">>), JBuffer(<<1, 2>>)),
     Member(Component(<<>>, <<"u", "f", "i", "x", "e", "d", "1", "2", "8", "x", "1", "8">>), JBigInt(FALSE, <<1>>)),
     Member(TupleComponent(<<>>, <<"t", "u", "p", "l", "e", "[", "2", "]">>, BoolAndUInt8),
            JArray(<<JArray(<<JBool(TRUE), N(1)>>), JArray(<<JBool(FALSE), N(2)>>)>>))}
        \cup {Member(Component(<<>>, <<"u", "i", "n", "t", "8", "[">> \o NatToDigits(k) \o <<"]">>), NumberArray(1, k)) :
                 k \in 1..MaxFixedLen}

\* the tuple of members, as a member
TupleMember(members) ==
    Member(TupleComponent(<<>>, S_tuple, [i \in 1..Len(members) |-> members[i].abi]),
           JArray([i \in 1..Len(members) |-> members[i].value]))

\* member nested d tuples deep, each tuple holding a bool before it
RECURSIVE Nested(_, _)
Nested(member, d) ==
    IF d = 0 THEN member
    ELSE TupleMember(<<Member(Component(<<>>, S_bool), JBool(FALSE)), Nested(member, d - 1)>>)

StaticTupleCases ==
    {Case(Nested(TupleMember(members), d).abi, Nested(TupleMember(members), d).value,
          Nested(TupleMember(members), d).abi) :
        members \in SeqsOf(StaticMembers, 1, MaxMembers), d \in 0..MaxDepth}

\* a tuple of a bool, a uint8 and, below the last level, a tuple of the next
\* level; the members of level i have names exactly when named[i]
RECURSIVE NamedLevel(_, _, _)
NamedLevel(named, i, flag) ==
    LET leaves == <<Member(Component(IF named[i] THEN <<"a">> ELSE <<>>, S_bool), JBool(flag)),
                    Member(Component(IF named[i] THEN <<"b">> ELSE <<>>, <<"u", "i", "n", "t", "8">>), N(i + 1))>>
        inner == NamedLevel(named, i + 1, flag)
    IN  IF i = Len(named) THEN TupleMember(leaves)
        ELSE TupleMember(Append(leaves,
                                Member([inner.abi EXCEPT !.name = IF named[i] THEN <<"c">> ELSE <<>>],
                                       inner.value)))

NamedTupleCases ==
    {Case(NamedLevel(named, 1, flag).abi, NamedLevel(named, 1, flag).value,
          NamedLevel(named, 1, flag).abi) :
        named \in SeqsOf(BOOLEAN, 1, MaxNesting), flag \in BOOLEAN}

\* integers at the ends of the 256-bit ranges
Range256Values ==
    {JBigInt(FALSE, Pow2Minus1(255)), JBigInt(FALSE, Pow2Bytes(255)),
     JBigInt(FALSE, Pow2Minus1(256)), JBigInt(FALSE, Pow2Bytes(256)),
     JBigInt(TRUE, Pow2Bytes(255)), JBigInt(TRUE, BigAdd(Pow2Bytes(255), <<1>>)),
     JBigInt(TRUE, Pow2Minus1(256)), JBigInt(TRUE, Pow2Bytes(256)),
     JBigInt(TRUE, BigAdd(Pow2Bytes(256), <<1>>))}

Range256Cases ==
    SameType(<<"i", "n", "t", "2", "5", "6">>, Range256Values)
        \cup SameType(<<"u", "i", "n", "t", "2", "5", "6">>, {v \in Range256Values : ~v.neg})

\* for a width below 256, the nearest integers outside the range of the type
OutOfWidthCases ==
    UNION {{Case(UIntType(M), JBigInt(FALSE, Pow2Bytes(M)), UIntType(M)),
            Case(UIntType(M), JBigInt(TRUE, <<1>>), UIntType(M)),
            Case(IntType(M), JBigInt(FALSE, Pow2Bytes(M - 1)), IntType(M)),
            Case(IntType(M), JBigInt(TRUE, BigAdd(Pow2Bytes(M - 1), <<1>>)), IntType(M))} :
           M \in Widths \ {256}}

\* a tuple of one dynamic member, next to a uint8 in a parent tuple, on
\* either side of it
NestedDynamicCases ==
    LET Inner(dyn) == TupleMember(<<Member(Component(<<>>, dyn.type), dyn.value)>>)
        Small == Member(Component(<<>>, <<"u", "i", "n", "t", "8">>), N(7))
        AsCase(parent) == Case(parent.abi, parent.value, parent.abi)
    IN  {AsCase(TupleMember(<<Small, Inner(dyn)>>)) : dyn \in DynamicMembers}
            \cup {AsCase(TupleMember(<<Inner(dyn), Small>>)) : dyn \in DynamicMembers}

\* descriptor objects whose type is written as a parenthesised tuple
ParenthesisedCases ==
    {Case(Component(<<>>, <<"(", "b", "o", "o", "l", ",", "u", "i", "n", "t", "8", ")">>), JArray(<<JBool(FALSE), N(2)>>),
          Component(<<>>, <<"(", "b", "o", "o", "l", ",", "u", "i", "n", "t", "8", ")">>)),
     Case(Component(<<>>, <<"(", "b", "o", "o", "l", ",", "u", "i", "n", "t", "8", ")", "[", "]">>), JArray(<<JArray(<<JBool(TRUE), N(1)>>)>>),
          Component(<<>>, <<"(", "b", "o", "o", "l", ",", "u", "i", "n", "t", "8", ")", "[", "]">>)),
     Case(Component(<<>>, <<"(", "b", "o", "o", "l", ",", "u", "i", "n", "t", "8", ")">>), JString(<<"x">>), Component(<<>>, <<"(", "b", "o", "o", "l", ",", "u", "i", "n", "t", "8", ")">>))}

\* values given for a fixed128x2, and the integer each stands for once
\* multiplied by 10^2 and truncated
DecimalValues ==
    {[value |-> JString(<<"1", ".", "2", "3", "9">>), scaled |-> 123],
     [value |-> JString(<<"-", "1", ".", "5">>), scaled |-> -150],
     [value |-> JString(<<"7">>), scaled |-> 700],
     [value |-> N(3), scaled |-> 300],
     [value |-> JBigInt(FALSE, <<5>>), scaled |-> 500],
     [value |-> JBigInt(TRUE, <<5>>), scaled |-> -500]}

DecimalCases == SameType(<<"f", "i", "x", "e", "d", "1", "2", "8", "x", "2">>, {d.value : d \in DecimalValues})

\* values that are no number, for an integer type
NonNumericValues ==
    {JString(<<"a", "b", "c">>), JNaN, JNull, Undefined, JObject([k \in {<<"a">>} |-> N(1)])}

NonNumericCases ==
    SameType(<<"u", "i", "n", "t", "8">>, NonNumericValues) \cup SameType(<<"i", "n", "t", "2", "5", "6">>, NonNumericValues)

\* a dynamic array of fixed arrays
FixedInDynamicCases ==
    SameType(<<"u", "i", "n", "t", "8", "[", "2", "]", "[", "]">>, {JArray(<<NumberArray(1, 2), NumberArray(3, 2)>>),
                              JArray(<<NumberArray(5, 2)>>)})

CodecCases ==
    IntegerCases \cup LeafCases \cup ArrayCases \cup DynamicTupleCases
        \cup StaticTupleCases \cup NamedTupleCases
        \cup Range256Cases \cup OutOfWidthCases \cup NestedDynamicCases
        \cup ParenthesisedCases \cup DecimalCases \cup NonNumericCases
        \cup FixedInDynamicCases

\* the low five bytes of the length words of received buffers
LengthWords ==
    {<<0, 0, 0, 0, l>> : l \in {0, 1, 2, 3, 4, 127, 128, 255}}
        \cup {<<0, 0, 0, 1, 0>>, <<0, 1, 0, 0, 0>>, <<0, 128, 0, 0, 0>>, <<1, 0, 0, 0, 0>>,
              <<1, 0, 0, 0, 3>>, <<0, 190, 255, 255, 255>>, <<0, 255, 255, 255, 255>>}

\* a buffer from outside: a pointer word, a length word, and a body
ReceivedBuffers ==
    {Zeros(31) \o <<pointer>> \o Zeros(27) \o word \o [i \in 1..n |-> i] :
        pointer \in {32, 96}, word \in LengthWords, n \in 0..MaxBody}

\* buffers that end before the first head slot does
TruncatedBuffers == {<<>>, <<1>>, Zeros(31), [i \in 1..31 |-> i]}

\* the tags of static components
StaticTags ==
    {S_bool, S_address, S_function, <<"b", "y", "t", "e", "s", "2">>, <<"b", "y", "t", "e", "s", "3", "2">>, <<"u", "i", "n", "t", "8">>, <<"i", "n", "t", "8">>, <<"u", "i", "n", "t", "2", "5", "6">>,
     <<"i", "n", "t", "2", "5", "6">>}

FunctionDefinition(name, inputs) ==
    [name |-> name, type |-> "function", stateMutability |-> "nonpayable",
     inputs |-> inputs, outputs |-> <<>>]

InputMembers ==
    {Member(Component(<<"t", "o">>, S_address), JBuffer([i \in 1..20 |-> i])),
     Member(Component(<<"a", "m", "o", "u", "n", "t">>, <<"u", "i", "n", "t", "2", "5", "6">>), N(5)),
     Member(TupleComponent(<<"p">>, S_tuple, BoolAndUInt8), JArray(<<JBool(TRUE), N(1)>>)),
     Member(TupleComponent(<<"p", "s">>, S_tupleArr, BoolAndUInt8),
            JArray(<<JArray(<<JBool(TRUE), N(1)>>)>>)),
     Member(TupleComponent(<<"p", "k">>, <<"t", "u", "p", "l", "e", "[", "2", "]">>, BoolAndUInt8),
            JArray(<<JArray(<<JBool(TRUE), N(1)>>), JArray(<<JBool(FALSE), N(2)>>)>>))}

\* encodeEvmFuncCall(func, params)
CallCases ==
    {[func |-> FunctionDefinition(<<"f">>, [i \in 1..Len(members) |-> members[i].abi]),
      params |-> JArray([i \in 1..Len(members) |-> members[i].value])] :
        members \in SeqsOf(InputMembers, 1, MaxInputs)}
        \cup {[func |-> JString(<<"t", "r", "a", "n", "s", "f", "e", "r", "(", "a", "d", "d", "r", "e", "s", "s", ",", "u", "i", "n", "t", "2", "5", "6", ")">>),
               params |-> JArray(<<JBuffer([i \in 1..20 |-> i]), N(5)>>)],
              [func |-> JString(<<"t", "r", "a", "n", "s", "f", "e", "r", "(", "a", "d", "d", "r", "e", "s", "s", " ", "t", "o", ",", " ", "u", "i", "n", "t", "2", "5", "6", " ", "a", "m", "o", "u", "n", "t", ")", " ", "r", "e", "t", "u", "r", "n", "s", " ", "(", "b", "o", "o", "l", ")">>),
               params |-> JArray(<<JBuffer([i \in 1..20 |-> i]), N(5)>>)]}

\* calls whose definition has an input written as a parenthesised tuple: with
\* its value, with no parameter for it, and after a parameter that is refused
ParenthesisedCalls ==
    LET pair == Component(<<"p">>, <<"(", "b", "o", "o", "l", ",", "u", "i", "n", "t", "8", ")">>)
        amount == Component(<<"a", "m", "o", "u", "n", "t">>, <<"u", "i", "n", "t", "2", "5", "6">>)
    IN  {[func |-> FunctionDefinition(<<"f">>, <<pair>>),
          params |-> JArray(<<JArray(<<JBool(TRUE), N(1)>>)>>)],
         [func |-> FunctionDefinition(<<"f">>, <<amount, pair>>),
          params |-> JArray(<<N(5), JArray(<<JBool(TRUE), N(1)>>)>>)],
         [func |-> FunctionDefinition(<<"f">>, <<amount, pair>>),
          params |-> JArray(<<N(5)>>)],
         [func |-> FunctionDefinition(<<"f">>, <<amount, pair>>),
          params |-> JArray(<<JString(<<"x">>), JArray(<<JBool(TRUE), N(1)>>)>>)]}

\* calls with one parameter fewer than the definition has inputs, and with
\* one more
ArityCalls ==
    LET Values(members) == [i \in 1..Len(members) |-> members[i].value]
        transfer == JString(<<"t", "r", "a", "n", "s", "f", "e", "r", "(", "a", "d", "d", "r", "e", "s", "s", ",", "u", "i", "n", "t", "2", "5", "6", ")">>)
    IN  {[func |-> FunctionDefinition(<<"f">>, [i \in 1..Len(c.members) |-> c.members[i].abi]),
          params |-> JArray(IF c.more THEN Values(c.members) \o <<N(9)>>
                            ELSE SubSeq(Values(c.members), 1, Len(c.members) - 1))] :
            c \in [members : SeqsOf(InputMembers, 1, MaxInputs), more : BOOLEAN]}
            \cup {[func |-> transfer, params |-> JArray(<<JBuffer([i \in 1..20 |-> i])>>)],
                  [func |-> transfer,
                   params |-> JArray(<<JBuffer([i \in 1..20 |-> i]), N(5), N(9)>>)]}

(***************************************************************************)
(* The descriptor objects of the caller after a call.  The members of the  *)
(* descriptors above are in normal form, or created by                     *)
(* normalizeTupleComponent itself, so that only the call on the object     *)
(* handed over changes anything; a type given as a string is no object.    *)
(***************************************************************************)
\* encodeEvmType: encodeTupleComponent starts with normalizeTupleComponent(abiDefs)
evmTypeAfterEncode(evmType) ==
    IF IsComponent(evmType) THEN normalizeTupleComponent(evmType) ELSE evmType

\* encodeEvmFuncCall: encodeTuple hands inputs[i] to encodeTupleComponent
\* for every parameter, until a call throws
funcDefinitionAfterCall(funcDefinition, parameters) ==
    LET Reached(i) ==
            /\ i <= Len(parameters)
            /\ ~IsThrown(encodeTuple(EvmPayloadEncoder(<<>>), SubSeq(parameters, 1, i - 1),
                                     funcDefinition.inputs))
    IN  IF "inputs" \notin DOMAIN funcDefinition THEN funcDefinition
        ELSE IF funcDefinition.type = "receive" THEN funcDefinition
        ELSE [funcDefinition EXCEPT
                 !.inputs = [i \in 1..Len(@) |->
                                IF Reached(i) THEN normalizeTupleComponent(@[i]) ELSE @[i]]]

MaxOutputComponents == 2

\* the components of a function's outputs with their values and the words a
\* contract returns for them: a bool, a uint8 and a tuple of both, without a
\* name and with one; the members of a tuple without names, or the first
\* alone with one
OutputMembers ==
    LET Returned(abi, value, words) == [abi |-> abi, value |-> value, words |-> words]
        Leaves(name) ==
            {Returned(Component(name, S_bool), JBool(TRUE), PadLeft(<<1>>, UINT256_SIZE)),
             Returned(Component(name, <<"u", "i", "n", "t", "8">>), N(7),
                      PadLeft(<<7>>, UINT256_SIZE))}
        Tuples(name) ==
            {Returned(TupleComponent(name, S_tuple, inner), JArray(<<JBool(TRUE), N(1)>>),
                      PadLeft(<<1>>, UINT256_SIZE) \o PadLeft(<<1>>, UINT256_SIZE)) :
                inner \in {BoolAndUInt8,
                           <<Component(<<"a">>, S_bool),
                             Component(<<>>, <<"u", "i", "n", "t", "8">>)>>}}
    IN  UNION {Leaves(name) \cup Tuples(name) : name \in {<<>>, <<"a">>, <<"b">>}}

\* decodeEvmOutputAsStruct(buffer, output): the outputs of a call, and the
\* data returned for them, whole or cut after the first component
OutputCases ==
    {[output |-> [i \in 1..Len(c.members) |-> c.members[i].abi],
      values |-> JArray([i \in 1..Len(c.members) |-> c.members[i].value]),
      buffer |-> JBuffer(IF c.whole
                         THEN Flatten([i \in 1..Len(c.members) |-> c.members[i].words])
                         ELSE c.members[1].words)] :
        c \in [members : SeqsOf(OutputMembers, 1, MaxOutputComponents), whole : BOOLEAN]}

\* decodeEvmOutputAsStruct: the constructor hands every descriptor to
\* decodeTupleComponent, which starts with normalizeTupleComponent(abiDef),
\* until a component throws
outputAfterDecode(buffer, output) ==
    [i \in 1..Len(output) |->
        IF IsThrown(EvmPayloadDecoder(buffer, SubSeq(output, 1, i - 1), "struct", 0, 0))
        THEN output[i] ELSE normalizeTupleComponent(output[i])]

\* decodeEvmType: the decoder's constructor hands the descriptor to
\* decodeTupleComponent, which starts with normalizeTupleComponent(abiDef)
evmTypeAfterDecode(evmType) ==
    IF IsComponent(evmType) THEN normalizeTupleComponent(evmType) ELSE evmType

MaxAddresses == 3

\* the 40 lowercase hex digits of addresses: the one of the documentation's
\* example and test addresses of EIP-55
AddressBodies ==
    <<
      <<"a", "a", "a", "a", "a", "a", "a", "a", "a", "a", "a", "a", "a", "a", "a", "a", "a", "a", "a", "a", "a", "a", "a", "a", "a", "a", "a", "a", "a", "a", "a", "a", "a", "a", "a", "a", "a", "a", "a", "a">>,
      <<"5", "a", "a", "e", "b", "6", "0", "5", "3", "f", "3", "e", "9", "4", "c", "9", "b", "9", "a", "0", "9", "f", "3", "3", "6", "6", "9", "4", "3", "5", "e", "7", "e", "f", "1", "b", "e", "a", "e", "d">>,
      <<"5", "2", "9", "0", "8", "4", "0", "0", "0", "9", "8", "5", "2", "7", "8", "8", "6", "e", "0", "f", "7", "0", "3", "0", "0", "6", "9", "8", "5", "7", "d", "2", "e", "4", "1", "6", "9", "e", "e", "7">>,
      <<"d", "e", "7", "0", "9", "f", "2", "1", "0", "2", "3", "0", "6", "2", "2", "0", "9", "2", "1", "0", "6", "0", "3", "1", "4", "7", "1", "5", "6", "2", "9", "0", "8", "0", "e", "2", "f", "b", "7", "7">>
    >>

Bodies == {AddressBodies[i] : i \in 1..SetMin({MaxAddresses, Len(AddressBodies)})}

\* "0x" and 40 hex digits, in lowercase, in uppercase, and with the letters
\* in odd positions in uppercase
PrefixedAddresses ==
    UNION {{<<"0", "x">> \o b, <<"0", "x">> \o toUpperCase(b),
            <<"0", "x">> \o [i \in 1..40 |-> IF i % 2 = 1 THEN toUpperCase(<<b[i]>>)[1] ELSE b[i]]} :
           b \in Bodies}

\* the arguments of toChecksumAddressEvm: addresses with the prefix, with an
\* uppercase prefix and without one, and texts that are no address
ChecksumInputs ==
    PrefixedAddresses
        \cup UNION {{b, toUpperCase(b), <<"0", "X">> \o toUpperCase(b),
                     <<"0", "x">> \o SubSeq(b, 1, 39), <<"0", "x", "g">> \o SubSeq(b, 2, 40)} :
                    b \in Bodies}

\* the arguments of isValidEvmAddress that are no result of
\* toChecksumAddressEvm: uniform case with and without prefix, a digit too
\* few and one too many, and characters that are no hex digits
ValidationInputs ==
    UNION {{<<"0", "x">> \o b, <<"0", "x">> \o toUpperCase(b), <<"0", "X">> \o b, b,
            toUpperCase(b),
            <<"0", "x">> \o SubSeq(b, 1, 39), <<"0", "x">> \o b \o <<"0">>,
            <<"0", "x", "g">> \o SubSeq(b, 2, 40), <<"0", "x">> \o SubSeq(b, 1, 39) \o <<".">>} :
           b \in Bodies}
        \cup {<<"0", "x">> \o [i \in 1..40 |-> "-"], <<>>}

(***************************************************************************)
(* The state machine: one call of an exported function per action.         *)
(***************************************************************************)
\* no codec function has been called
NoCodec ==
    /\ sigIn = Undefined /\ typeIn = Undefined /\ valueIn = Undefined /\ asType = Undefined
    /\ defOut = Undefined /\ encoded = Undefined /\ decoded = Undefined

\* no address function has been called
NoAddress ==
    addressIn = Undefined /\ lenientIn = FALSE /\ checksumAddress = Undefined /\ valid = Undefined

Init ==
    \/ /\ pc = "parse"
       /\ sigIn \in BalancedSignatures \cup UnbalancedSignatures \cup UnnamedSignatures
       /\ typeIn = Undefined /\ valueIn = Undefined /\ asType = Undefined
       /\ defOut = Undefined /\ encoded = Undefined /\ decoded = Undefined
       /\ NoAddress
    \/ /\ pc = "parseType"
       /\ typeIn \in {JString(text) : text \in TypeTexts \cup {m.text : m \in WrittenMembers}}
       /\ sigIn = Undefined /\ valueIn = Undefined /\ asType = Undefined
       /\ defOut = Undefined /\ encoded = Undefined /\ decoded = Undefined
       /\ NoAddress
    \/ /\ pc = "encode"
       /\ \E c \in CodecCases : typeIn = c.type /\ valueIn = c.value /\ asType = c.readAs
       /\ sigIn = Undefined
       /\ defOut = Undefined /\ encoded = Undefined /\ decoded = Undefined
       /\ NoAddress
    \/ /\ pc = "call"
       /\ \E c \in CallCases \cup ParenthesisedCalls \cup ArityCalls : typeIn = c.func /\ valueIn = c.params
       /\ sigIn = Undefined /\ asType = Undefined
       /\ defOut = Undefined /\ encoded = Undefined /\ decoded = Undefined
       /\ NoAddress
    \/ /\ pc = "received"
       /\ encoded \in {JBuffer(b) : b \in ReceivedBuffers}
       /\ asType \in {JString(S_bytes), JString(S_string)}
       /\ sigIn = Undefined /\ typeIn = Undefined /\ valueIn = Undefined
       /\ defOut = Undefined /\ decoded = Undefined
       /\ NoAddress
    \/ /\ pc = "truncated"
       /\ encoded \in {JBuffer(b) : b \in TruncatedBuffers}
       /\ asType \in {JString(tag) : tag \in StaticTags}
       /\ sigIn = Undefined /\ typeIn = Undefined /\ valueIn = Undefined
       /\ defOut = Undefined /\ decoded = Undefined
       /\ NoAddress
    \/ /\ pc = "output"
       /\ \E c \in OutputCases : asType = c.output /\ valueIn = c.values /\ encoded = c.buffer
       /\ sigIn = Undefined /\ typeIn = Undefined
       /\ defOut = Undefined /\ decoded = Undefined
       /\ NoAddress
    \/ /\ pc = "checksum"
       /\ addressIn \in {JString(a) : a \in ChecksumInputs}
       /\ lenientIn = FALSE /\ checksumAddress = Undefined /\ valid = Undefined
       /\ NoCodec
    \/ /\ pc = "validate"
       /\ addressIn \in {JString(a) : a \in ValidationInputs} \cup {N(5)}
       /\ lenientIn \in BOOLEAN
       /\ checksumAddress = Undefined /\ valid = Undefined
       /\ NoCodec

\* functionSignatureToABIDefinition(sig)
ParseSignature ==
    /\ pc = "parse"
    /\ defOut' = functionSignatureToABIDefinition(sigIn.text)
    /\ pc' = "parsed"
    /\ UNCHANGED <<sigIn, typeIn, valueIn, asType, encoded, decoded>>
    /\ UNCHANGED addressVars

\* eVMTypeToComponent(typeString)
ParseType ==
    /\ pc = "parseType"
    /\ defOut' = eVMTypeToComponent(typeIn.s)
    /\ pc' = "parsedType"
    /\ UNCHANGED <<sigIn, typeIn, valueIn, asType, encoded, decoded>>
    /\ UNCHANGED addressVars

\* encodeEvmType(value, evmType); typeIn is the caller's descriptor, which the
\* call may edit
Encode ==
    /\ pc = "encode"
    /\ encoded' = encodeEvmType(valueIn, typeIn)
    /\ typeIn' = evmTypeAfterEncode(typeIn)
    /\ pc' = "encoded"
    /\ UNCHANGED <<sigIn, defOut, valueIn, asType, decoded>>
    /\ UNCHANGED addressVars

\* encodeEvmFuncCall(funcDefinition, parameters)
EncodeFuncCall ==
    /\ pc = "call"
    /\ encoded' = encodeEvmFuncCall(typeIn, valueIn.e)
    /\ typeIn' = funcDefinitionAfterCall(typeIn, valueIn.e)
    /\ pc' = "called"
    /\ UNCHANGED <<sigIn, defOut, valueIn, asType, decoded>>
    /\ UNCHANGED addressVars

\* decodeEvmType(data, evmType) of an encoder's output or of a received buffer
Decode ==
    /\ pc \in {"encoded", "received", "truncated"}
    /\ ~IsThrown(encoded)
    /\ decoded' = decodeEvmType(encoded.b, asType)
    /\ asType' = evmTypeAfterDecode(asType)
    /\ pc' = CASE pc = "received" -> "decodedReceived"
                [] pc = "truncated" -> "decodedTruncated"
                [] OTHER -> "decoded"
    /\ UNCHANGED <<sigIn, defOut, typeIn, valueIn, encoded>>
    /\ UNCHANGED addressVars

\* decodeEvmOutputAsStruct(buffer, output) of the data a call returned
DecodeOutputAsStruct ==
    /\ pc = "output"
    /\ decoded' = decodeEvmOutputAsStruct(encoded.b, asType)
    /\ asType' = outputAfterDecode(encoded.b, asType)
    /\ pc' = "decodedOutput"
    /\ UNCHANGED <<sigIn, defOut, typeIn, valueIn, encoded>>
    /\ UNCHANGED addressVars

\* str with the case of its character at index i (from 1) changed
CaseChanged(str, i) ==
    [str EXCEPT ![i] = IF toLowerCase(<<@>>) = <<@>> THEN toUpperCase(<<@>>)[1]
                       ELSE toLowerCase(<<@>>)[1]]

\* the texts that differ from str in the case of exactly one letter
CaseFlips(str) == {CaseChanged(str, i) : i \in 1..Len(str)} \ {str}

\* toChecksumAddressEvm(address)
ToChecksumAddress ==
    /\ pc = "checksum"
    /\ checksumAddress' = toChecksumAddressEvm(addressIn.s, TRUE)
    /\ pc' = "checksummed"
    /\ UNCHANGED <<sigIn, defOut, typeIn, valueIn, asType, encoded, decoded>>
    /\ UNCHANGED <<addressIn, lenientIn, valid>>

\* isValidEvmAddress(address, lenient) of the checksum address just returned,
\* or of it with the case of one letter changed
ValidateChecksumAddress ==
    /\ pc = "checksummed"
    /\ ~IsThrown(checksumAddress)
    /\ \E address \in {checksumAddress.s} \cup CaseFlips(checksumAddress.s), l \in BOOLEAN :
           /\ addressIn' = JString(address)
           /\ lenientIn' = l
           /\ valid' = JBool(isValidEvmAddress(JString(address), l))
    /\ pc' = "validatedChecksum"
    /\ UNCHANGED <<sigIn, defOut, typeIn, valueIn, asType, encoded, decoded>>
    /\ UNCHANGED checksumAddress

\* isValidEvmAddress(address, lenient)
Validate ==
    /\ pc = "validate"
    /\ valid' = JBool(isValidEvmAddress(addressIn, lenientIn))
    /\ pc' = "validated"
    /\ UNCHANGED <<sigIn, defOut, typeIn, valueIn, asType, encoded, decoded>>
    /\ UNCHANGED <<addressIn, lenientIn, checksumAddress>>

Next ==
    \/ ParseSignature \/ ParseType \/ Encode \/ EncodeFuncCall \/ Decode
    \/ DecodeOutputAsStruct
    \/ ToChecksumAddress \/ ValidateChecksumAddress \/ Validate

Spec == Init /\ [][Next]_vars

(***************************************************************************)
(* Properties.  The operators below state what the specification expects   *)
(* of a call; they are compared with what the calls above produced.        *)
(***************************************************************************)
\* the call of the current state
ThisCase == Case(typeIn, valueIn, asType)

\* a == b for values: numbers and bigints by value, arrays member by member
RECURSIVE SameValue(_, _)
SameValue(a, b) ==
    IF IsNumeric(a) /\ IsNumeric(b) THEN a.neg = b.neg /\ a.mag = b.mag
    ELSE IF a.t # b.t THEN FALSE
    ELSE IF a.t = "array"
    THEN /\ Len(a.e) = Len(b.e)
         /\ \A i \in 1..Len(a.e) : SameValue(a.e[i], b.e[i])
    ELSE a = b

\* the 32-byte word i (0-based) of a buffer, as a number; words of the
\* buffers compared here are offsets below 2^24
WordAt(bytes, i) == BytesToNat(SubSeq(bytes, 32 * i + 29, 32 * i + 32))

\* calls of the round trip on types without a documented lossy path: bool,
\* string, bytes, bytesN, intM, uintM, and arrays and tuples of these
RoundTripCases ==
    {c \in IntegerCases : c.readAs = c.type}
        \cup SameType(S_bool, {JBool(TRUE), JBool(FALSE)})
        \cup {c \in LeafCases : c.type \in {JString(S_string), JString(S_bytes),
                                            JString(<<"b", "y", "t", "e", "s", "2">>), JString(<<"b", "y", "t", "e", "s", "3", "2">>)}}
        \cup ArrayCases
        \cup DynamicTupleCases

\* C1: decoding what encodeEvmType produced for a value v of a type T, as T,
\* returns v.
C1_RoundTrip ==
    (pc = "decoded" /\ ThisCase \in RoundTripCases) => SameValue(decoded, valueIn)

\* C2: in the encoding of a tuple of two dynamic values with non-empty
\* content, the tail of the first registered head slot is placed before the
\* tail of the second, as in the canonical ABI encoding.
C2_TailsInRegistrationOrder ==
    (/\ pc = "encoded"
     /\ ThisCase \in DynamicTupleCases
     /\ \A i \in 1..Len(valueIn.e) : valueIn.e[i] # JString(<<>>))
        => /\ ~IsThrown(encoded)
           /\ WordAt(encoded.b, 0) = 32 * Len(valueIn.e)
           /\ WordAt(encoded.b, 0) < WordAt(encoded.b, 1)

\* the array suffixes of a type tag: what follows its first "["
ArraySuffix(type) ==
    IF indexOf(type, "[") = -1 THEN <<>> ELSE substringFrom(type, indexOf(type, "["))

\* the canonical signature of a component list: every tuple-typed component,
\* with any [] or [K] suffix, is expanded to its own signature and keeps its
\* suffix
RECURSIVE CanonicalSignature(_)
CanonicalSignature(abiDefs) ==
    <<"(">>
        \o join([i \in 1..Len(abiDefs) |->
                    IF startsWith(trim(abiDefs[i].type), S_tuple)
                    THEN CanonicalSignature(abiDefs[i].components)
                             \o ArraySuffix(trim(abiDefs[i].type))
                    ELSE trim(abiDefs[i].type)],
                <<",">>)
        \o <<")">>

\* C3: for a descriptor of kind function, encodeEvmFuncCall returns the first
\* four bytes of keccak256(name + canonical signature), followed by the
\* encoding of the arguments as the tuple of the inputs.
C3_SelectorOfCanonicalSignature ==
    (pc = "called" /\ "inputs" \in DOMAIN typeIn /\ typeIn.type = "function")
        => /\ ~IsThrown(encoded)
           /\ SubSeq(encoded.b, 1, 4)
                  = SubSeq(keccak256(typeIn.name \o CanonicalSignature(typeIn.inputs)), 1, 4)
           /\ SubSeq(encoded.b, 5, Len(encoded.b))
                  = payload(encodeTuple(EvmPayloadEncoder(<<>>), valueIn.e, typeIn.inputs))

\* the offset in a received buffer of the 32-byte length word
LengthWordOffset(bytes) == WordAt(bytes, 0)

\* the content of the bytes or string value of a received buffer ends beyond
\* the end of the buffer: the length word does not fit, or the 256-bit length
\* it holds leads past the end
EndsBeyondBuffer(bytes) ==
    \/ LengthWordOffset(bytes) + 32 > Len(bytes)
    \/ BigLess(NatToBytes(Len(bytes)),
               BigAdd(NatToBytes(LengthWordOffset(bytes) + 32),
                      StripZeros(SubSeq(bytes, LengthWordOffset(bytes) + 1,
                                        LengthWordOffset(bytes) + 32))))

\* C4: decoding a bytes or string value whose content ends beyond the end of
\* the buffer raises an error, for every value of the length word.
C4_BoundsSafety ==
    (pc = "decodedReceived" /\ EndsBeyondBuffer(encoded.b)) => IsThrown(decoded)

\* the width M of the type tag intM or uintM
WidthOf(type) ==
    DigitsToNat(substringFrom(type.s, IF startsWith(type.s, S_uint) THEN 4 ELSE 3))

\* calls that encode a negative v as intM
NegativeCases == {c \in IntegerCases : c.value.neg}

\* C5: a negative v encoded as intM is the two's-complement word of v over
\* 256 bits; decoding the word as intM gives v and as uintM gives v + 2^M.
C5_NegativeIntegers ==
    (pc \in {"encoded", "decoded"} /\ ThisCase \in NegativeCases)
        => /\ ~IsThrown(encoded)
           /\ encoded.b = BigSub(Pow2Bytes(256), valueIn.mag)
           /\ pc = "decoded"
                 => /\ IsNumeric(decoded)
                    /\ IF asType = typeIn
                       THEN decoded.neg /\ decoded.mag = valueIn.mag
                       ELSE /\ ~decoded.neg
                            /\ decoded.mag = BigSub(Pow2Bytes(WidthOf(typeIn)), valueIn.mag)

\* calls that encode two inner arrays of different lengths as uint256[][2]
NestedArrayCases ==
    {c \in ArrayCases : /\ c.type = JString(<<"u", "i", "n", "t", "2", "5", "6", "[", "]", "[", "2", "]">>)
                        /\ Len(c.value.e[1].e) # Len(c.value.e[2].e)}

\* C6: a uint256[][2] whose inner arrays differ in length, encoded and decoded
\* as uint256[][2], comes back as two arrays of the same lengths with the same
\* elements in the same order.
C6_NestedArrayOffsets ==
    (pc = "decoded" /\ ThisCase \in NestedArrayCases)
        => /\ decoded.t = "array"
           /\ Len(decoded.e) = 2
           /\ \A i \in 1..2 :
                  /\ decoded.e[i].t = "array"
                  /\ Len(decoded.e[i].e) = Len(valueIn.e[i].e)
                  /\ \A j \in 1..Len(valueIn.e[i].e) :
                         SameValue(decoded.e[i].e[j], valueIn.e[i].e[j])

RECURSIVE SumOf(_)
SumOf(numbers) == IF numbers = <<>> THEN 0 ELSE Head(numbers) + SumOf(Tail(numbers))

\* the number of 32-byte leaf slots of a static component: one for a leaf,
\* K times those of the element for a fixed array T[K], and the sum of those
\* of the members for a tuple
RECURSIVE LeafSlots(_)
LeafSlots(abiDef) ==
    LET arrayType == encodedArrayType(abiDef.type)
    IN  IF arrayType.isArray
        THEN arrayType.arrayLength * LeafSlots([abiDef EXCEPT !.type = arrayType.innerType])
        ELSE IF abiDef.type = S_tuple
        THEN SumOf([i \in 1..Len(abiDef.components) |-> LeafSlots(abiDef.components[i])])
        ELSE 1

\* C7: the encoding of a tuple whose members are all static, one value given
\* per member, is a buffer of exactly 32 bytes per leaf slot: no tail region
\* and no pointer slot.
C7_StaticTupleLayout ==
    (pc = "encoded" /\ ThisCase \in StaticTupleCases)
        => /\ ~IsThrown(encoded)
           /\ Len(encoded.b) = 32 * LeafSlots(typeIn)

\* what decoding a tuple yields for the positional value that was encoded:
\* at every level, a mapping from member name to value when a direct member
\* has a non-empty name, the sequence of the member values otherwise
RECURSIVE KeyedOrPositional(_, _)
KeyedOrPositional(abiDef, value) ==
    IF abiDef.type # S_tuple THEN value
    ELSE LET n == Len(abiDef.components)
             members == [i \in 1..n |-> KeyedOrPositional(abiDef.components[i], value.e[i])]
         IN  IF \E i \in 1..n : abiDef.components[i].name # <<>>
             THEN JObject([k \in {abiDef.components[i].name : i \in 1..n} |->
                              members[CHOOSE i \in 1..n : abiDef.components[i].name = k]])
             ELSE JArray(members)

\* C8: a tuple without a named direct member decodes to the sequence of its
\* member values and a tuple with one to a mapping from name to value, at
\* every nesting level and for the tuple handed to decodeEvmType.
C8_TupleNameBranching ==
    (pc = "decoded" /\ ThisCase \in NamedTupleCases)
        => decoded = KeyedOrPositional(typeIn, valueIn)

\* C9: a balanced signature "name(T1,...,Tn) modifiers returns (U1,...,Um)"
\* parses to a descriptor with that name, n inputs of the types T1..Tn and m
\* outputs of the types U1..Um.
C9_SignatureParsed ==
    (pc = "parsed" /\ sigIn.balanced /\ sigIn.hasOutputs)
        => /\ defOut.name = sigIn.name
           /\ Len(defOut.inputs) = Len(sigIn.inputs)
           /\ \A i \in 1..Len(sigIn.inputs) :
                  tupleComponentTypeSignature(defOut.inputs[i]) = sigIn.inputs[i]
           /\ Len(defOut.outputs) = Len(sigIn.outputs)
           /\ \A i \in 1..Len(sigIn.outputs) :
                  tupleComponentTypeSignature(defOut.outputs[i]) = sigIn.outputs[i]

\* the parser raised an error instead of returning a descriptor
ParseFailed(result) == "t" \in DOMAIN result /\ result.t = "throw"

\* C10: a signature or a type string with unbalanced parentheses is refused
\* with a parse error.
C10_UnbalancedRejected ==
    /\ (pc = "parsed" /\ ~sigIn.balanced) => ParseFailed(defOut)
    /\ (pc = "parsedType" /\ ~IsBalanced(typeIn.s)) => ParseFailed(defOut)

\* C11: encodeInt raises a range error for every integer above 2^256 - 1 and
\* for every integer below -2^255; every other negative v is encoded as the
\* word 2^256 + v.
C11_IntegerRange ==
    (pc = "encoded" /\ ThisCase \in Range256Cases)
        => IF \/ ~valueIn.neg /\ BigLess(Pow2Minus1(256), valueIn.mag)
              \/ valueIn.neg /\ BigLess(Pow2Bytes(255), valueIn.mag)
           THEN encoded = Thrown("RangeError")
           ELSE /\ ~IsThrown(encoded)
                /\ valueIn.neg => encoded.b = PadLeft(BigSub(Pow2Bytes(256), valueIn.mag), 32)

\* C12: encoding an integer outside the range of uintM or intM, M < 256,
\* raises a range error and returns no encoding.
C12_WidthRange ==
    (pc = "encoded" /\ ThisCase \in OutOfWidthCases) => encoded = Thrown("RangeError")

\* the content bytes of a bytes or string value
ContentOf(v) == IF v.t = "buffer" THEN v.b ELSE Utf8Bytes(v.s)

\* bytes and string values with at least one byte of content
NonEmptyContentCases ==
    {c \in LeafCases : /\ c.type \in {JString(S_bytes), JString(S_string)}
                       /\ Len(ContentOf(c.value)) >= 1}

\* C13: the tail segment of a bytes or string value of length L >= 1 is the
\* 32-byte big-endian length, the content, and zero bytes up to the next
\* 32-byte boundary: 32 + 32 * ceil(L / 32) bytes in all.
C13_DynamicTailPadded ==
    (pc = "encoded" /\ ThisCase \in NonEmptyContentCases)
        => /\ ~IsThrown(encoded)
           /\ LET b == ContentOf(valueIn)
                  tail == SubSeq(encoded.b, UINT256_SIZE + 1, Len(encoded.b))
              IN  /\ Len(tail) = 32 + 32 * ((Len(b) + 31) \div 32)
                  /\ tail = PadLeft(NatToBytes(Len(b)), 32) \o b
                                \o Zeros(Len(tail) - 32 - Len(b))

\* the number of elements, bytes or characters of a dynamic value
ContentLength(v) == IF v.t = "array" THEN Len(v.e) ELSE Len(ContentOf(v))

\* C14: a tuple with a dynamic member occupies one pointer slot in the head
\* of its parent, and its whole encoding is placed in the parent's tail: the
\* pointer leads to the tuple's own head, whose slot points, relative to the
\* tuple's start, at the member's length word.
C14_DynamicTupleBehindPointer ==
    (pc = "encoded" /\ ThisCase \in NestedDynamicCases)
        => /\ ~IsThrown(encoded)
           /\ LET tupleSlot == CHOOSE i \in 1..2 : typeIn.components[i].type = S_tuple
                  start == WordAt(encoded.b, tupleSlot - 1)
              IN  /\ Len(encoded.b) >= 4 * UINT256_SIZE
                  /\ WordAt(encoded.b, 2 - tupleSlot) = 7
                  /\ start = 2 * UINT256_SIZE
                  /\ WordAt(encoded.b, start \div UINT256_SIZE) = UINT256_SIZE
                  /\ WordAt(encoded.b, start \div UINT256_SIZE + 1)
                        = ContentLength(valueIn.e[tupleSlot].e[1])

\* C15: encodeEvmType, encodeEvmFuncCall and decodeEvmType leave the
\* descriptor object passed by the caller as it was before the call, also
\* one whose type is written as a parenthesised tuple.
C15_DescriptorsUnchanged ==
    [][/\ pc \in {"encode", "call"} => typeIn' = typeIn
       /\ pc \in {"encoded", "received"} => asType' = asType]_vars

\* the calls of toChecksumAddressEvm on "0x" and 40 hex digits
IsPrefixedAddress(str) ==
    Len(str) = 42 /\ startsWith(str, <<"0", "x">>) /\ AllHexDigits(SubSeq(str, 3, 42))

\* C16: the checksum address returned for "0x" and 40 hex digits in any case
\* is valid in strict mode, and no text that differs from it in the case of
\* one letter is.
C16_ChecksumAcceptedFlipsRejected ==
    /\ (pc = "checksummed" /\ IsPrefixedAddress(addressIn.s))
          => /\ ~IsThrown(checksumAddress)
             /\ isValidEvmAddress(checksumAddress, FALSE)
             /\ \A flipped \in CaseFlips(checksumAddress.s) :
                    ~isValidEvmAddress(JString(flipped), FALSE)
    /\ (pc = "validatedChecksum" /\ ~lenientIn /\ IsPrefixedAddress(checksumAddress.s))
          => valid = JBool(addressIn = checksumAddress)

\* a strict validation of a checksum address with the case of one letter
\* changed has returned
C16_Witness ==
    /\ pc = "validatedChecksum" /\ ~lenientIn
    /\ IsPrefixedAddress(checksumAddress.s)
    /\ addressIn.s \in CaseFlips(checksumAddress.s)
    /\ addressIn.s # toLowerCase(addressIn.s)

\* the checksum casing of 40 lowercase hex digits: a letter is uppercase
\* exactly when the digit of the digest at its place exceeds 7
ChecksumCasing(digits) ==
    [i \in 1..Len(digits) |->
        IF HexVal(keccak256ToHex(digits)[i]) > 7 THEN toUpperCase(<<digits[i]>>)[1]
        ELSE digits[i]]

\* "0x" and 40 hex digits in checksum casing
IsChecksumAddress(str) ==
    /\ IsPrefixedAddress(str)
    /\ SubSeq(str, 3, 42) = ChecksumCasing(toLowerCase(SubSeq(str, 3, 42)))

\* 40 hex digits, all letters lowercase or all uppercase, after an optional prefix
IsUniformAddress(str) ==
    \E body \in {str, AfterPrefix(str)} :
        Len(body) = 40 /\ AllHexDigits(body)
            /\ (body = toLowerCase(body) \/ body = toUpperCase(body))

\* C17: isValidEvmAddress returns true in strict mode only for "0x" and 40
\* hex digits in checksum casing, and in lenient mode also for 40 hex digits
\* of uniform case; a text of another length or with a character that is no
\* hex digit is refused in both modes.
C17_MalformedRejected ==
    (pc = "validated" /\ addressIn.t = "string")
        => valid = JBool(\/ IsChecksumAddress(addressIn.s)
                         \/ lenientIn /\ IsUniformAddress(addressIn.s))

\* C18: for 40 hex digits in any case, with or without the prefix, the
\* result of toChecksumAddressEvm is "0x" and the same 40 digits in checksum
\* casing, whatever the case of the input and with or without its prefix.
C18_ChecksumOfDigits ==
    (pc = "checksummed" /\ MatchesAddressAnyCase(addressIn.s))
        => checksumAddress
              = JString(<<"0", "x">> \o
                        ChecksumCasing(toLowerCase(SubSeq(addressIn.s, Len(addressIn.s) - 39,
                                                          Len(addressIn.s)))))

\* the primitive type tags of the vocabulary
PrimitiveTags ==
    {S_bool, S_address, S_string, S_bytes, S_fixed, S_ufixed}
        \cup {S_bytes \o NatToDigits(n) : n \in 1..32}
        \cup {S_int \o NatToDigits(M) : M \in Widths}
        \cup {S_uint \o NatToDigits(M) : M \in Widths}
        \cup {S_fixed \o NatToDigits(M) \o <<"x">> \o NatToDigits(n) : M \in Widths, n \in 1..80}
        \cup {S_ufixed \o NatToDigits(M) \o <<"x">> \o NatToDigits(n) : M \in Widths, n \in 1..80}

\* C19: the table of encode handlers holds a callable handler for every
\* primitive tag of the vocabulary, before and after every call.
C19_HandlerTableComplete ==
    pc \in {"encode", "encoded", "call", "called"}
        => \A tag \in PrimitiveTags : encodeFunctions(tag).t = "handler"

\* the signature text has an input list
HasInputList(text) == indexOf(text, "(") >= 0

\* C20: a descriptor of kind receive has no inputs and no outputs, a
\* signature without an output list yields no outputs, and an empty name with
\* an input list yields the kind fallback.
C20_ReceiveAndFallback ==
    (pc = "parsed" /\ sigIn.balanced)
        => /\ defOut.type = "receive" => defOut.inputs = <<>> /\ defOut.outputs = <<>>
           /\ ~sigIn.hasOutputs => Len(defOut.outputs) = 0
           /\ (sigIn.name = <<>> /\ HasInputList(sigIn.text)) => defOut.type = "fallback"

\* C21: a member written as a type, a space and a name is parsed into that
\* type and exactly that name; a member whose last space lies inside a
\* tuple's parentheses gets the empty name.
C21_TrailingName ==
    \A m \in WrittenMembers :
        (pc = "parsedType" /\ typeIn.s = m.text)
            => /\ defOut.name = m.name
               /\ defOut.type = (IF startsWith(m.type, <<"(">>) THEN S_tuple ELSE m.type)

\* arrays of a static element type, of fixed and of dynamic length
FlatArrayCases ==
    {c \in ArrayCases : c.type \in {JString(<<"u", "i", "n", "t", "8", "[", "]">>), JString(<<"u", "i", "n", "t", "8", "[", "2", "]">>),
                                    JString(<<"b", "o", "o", "l", "[", "2", "]">>)}}

\* C22: decoding T[K] reads K inline head slots and decoding T[] follows one
\* pointer to the length word and reads that many elements: in both cases
\* the elements that were encoded come back, as many and in the same order.
C22_ArrayDispatch ==
    (pc = "decoded" /\ ThisCase \in FlatArrayCases)
        => /\ decoded.t = "array"
           /\ Len(decoded.e) = Len(valueIn.e)
           /\ \A i \in 1..Len(valueIn.e) : SameValue(decoded.e[i], valueIn.e[i])

\* bytes values: empty, shorter than a word, a word, and longer than a word
BytesCases == {c \in LeafCases : c.type = JString(S_bytes)}

\* C23: decoding the encoding of a byte string as bytes returns the byte
\* string, whatever its length.
C23_BytesRoundTrip ==
    (pc = "decoded" /\ ThisCase \in BytesCases)
        => decoded.t = "buffer" /\ decoded.b = valueIn.b

\* C24: decoding a static component from a buffer with fewer than 32 bytes
\* at the read cursor raises an error; no value is made of the truncated
\* slice.
C24_HeadSlotBoundsChecked ==
    (pc = "decodedTruncated" /\ Len(encoded.b) < UINT256_SIZE) => IsThrown(decoded)

\* the 256-bit two's-complement word of an integer
WordOfInt(n) ==
    IF n < 0 THEN PadLeft(BigSub(Pow2Bytes(256), NatToBytes(-n)), 32)
    ELSE PadLeft(NatToBytes(n), 32)

\* C25: a value encoded as fixedMxN, given as a number, a decimal string or a
\* big integer, yields the word of the value multiplied by 10^N, digits
\* beyond the N-th truncated.
C25_DecimalScaled ==
    \A d \in DecimalValues :
        (pc = "encoded" /\ ThisCase \in DecimalCases /\ valueIn = d.value)
            => encoded = JBuffer(WordOfInt(d.scaled))

\* C26: encoding a value that is no number as intM or uintM fails with a
\* type error; it is never encoded as zero.
C26_NonNumericRejected ==
    (pc = "encoded" /\ ThisCase \in NonNumericCases) => encoded = Thrown("TypeError")

\* the 32-byte word i of a buffer as a number, -1 past its end
WordOrNone(bytes, i) == IF 32 * (i + 1) <= Len(bytes) THEN WordAt(bytes, i) ELSE -1

\* the words from offset on are the length of the array and its numbers
HoldsDynamicArray(bytes, offset, array) ==
    /\ offset % 32 = 0
    /\ WordOrNone(bytes, offset \div 32) = Len(array.e)
    /\ \A j \in 1..Len(array.e) :
           NumberOfNat(WordOrNone(bytes, offset \div 32 + j)) = array.e[j]

\* C27: the last bracket suffix is the outermost dimension: T[][2] is a fixed
\* array of two T[], encoded as two dynamic arrays, each behind a slot of its
\* own, and T[2][] is a dynamic array of T[2], encoded behind one pointer as a
\* length and the elements of its members in line.
C27_LastSuffixOutermost ==
    /\ (pc = "encoded" /\ ThisCase \in ArrayCases /\ typeIn.s = <<"u", "i", "n", "t", "2", "5", "6", "[", "]", "[", "2", "]">>)
          => /\ encodedArrayType(typeIn.s)
                    = [isArray |-> TRUE, lengthIsNull |-> FALSE, arrayLength |-> 2,
                       innerType |-> <<"u", "i", "n", "t", "2", "5", "6", "[", "]">>]
             /\ ~IsThrown(encoded)
             /\ \A i \in 1..2 :
                    HoldsDynamicArray(encoded.b, WordOrNone(encoded.b, i - 1), valueIn.e[i])
    /\ (pc = "encoded" /\ ThisCase \in FixedInDynamicCases)
          => /\ encodedArrayType(typeIn.s)
                    = [isArray |-> TRUE, lengthIsNull |-> TRUE, arrayLength |-> 0,
                       innerType |-> <<"u", "i", "n", "t", "8", "[", "2", "]">>]
             /\ ~IsThrown(encoded)
             /\ WordOrNone(encoded.b, 0) = 32
             /\ WordOrNone(encoded.b, 1) = Len(valueIn.e)
             /\ \A i \in 1..Len(valueIn.e) : \A j \in 1..2 :
                    NumberOfNat(WordOrNone(encoded.b, 2 * i + j - 1)) = valueIn.e[i].e[j]

\* a uint256[][2] with two inner arrays of different lengths has been encoded
C27_Witness ==
    /\ pc = "encoded" /\ ThisCase \in ArrayCases /\ typeIn.s = <<"u", "i", "n", "t", "2", "5", "6", "[", "]", "[", "2", "]">>
    /\ Len(valueIn.e[1].e) = 1 /\ Len(valueIn.e[2].e) = 2
    /\ ~IsThrown(encoded)

\* the encoder that encodeEvmType or encodeEvmFuncCall has filled when it
\* calls payload(), or Thrown
FilledEncoder ==
    IF pc = "encoded"
    THEN encodeTupleComponent(EvmPayloadEncoder(<<>>), valueIn,
                              IF IsComponent(typeIn) THEN typeIn
                              ELSE normalizeTupleComponent(Component(<<>>, typeIn.s)))
    ELSE encodeTuple(EvmPayloadEncoder(SubSeq(encoded.b, 1, 4)), valueIn.e,
                     IF "inputs" \in DOMAIN typeIn THEN typeIn.inputs
                     ELSE functionSignatureToABIDefinition(typeIn.s).inputs)

\* currentLength is the sum of the lengths of the payload segments
LengthKept(this) ==
    this.currentLength
        = SumOf([i \in 1..Len(this.payloadSegments) |-> Len(this.payloadSegments[i])])

\* the encoder after the first k passes of the first loop of payload()
AfterHeapPasses(this, k) ==
    [ResolveHeapSegments([this EXCEPT !.appendedHeapSegments =
                                          SubSeq(@, Len(@) - k + 1, Len(@))])
        EXCEPT !.appendedHeapSegments = SubSeq(this.appendedHeapSegments, 1,
                                               Len(this.appendedHeapSegments) - k)]

\* the encoder after the first loop and the first k passes of the second
AfterArrayPasses(this, k) ==
    [ResolveDynamicArrays([ResolveHeapSegments(this) EXCEPT
                               !.appendedDynamicArray = SubSeq(@, Len(@) - k + 1, Len(@))])
        EXCEPT !.appendedDynamicArray = SubSeq(this.appendedDynamicArray, 1,
                                               Len(this.appendedDynamicArray) - k)]

\* the bytes of the encoder's region: the segments after both loops
RegionOf(this) == Flatten(AfterArrayPasses(this, Len(this.appendedDynamicArray)).payloadSegments)

\* the bookkeeping holds before and after every pass of the loops of
\* payload(), no placeholder is left, and every pointer is the offset in the
\* region of what it points to; the same for the encoders of dynamic arrays
RECURSIVE WellKept(_)
WellKept(this) ==
    LET heap == this.appendedHeapSegments
        arrays == this.appendedDynamicArray
        segments == AfterArrayPasses(this, Len(arrays)).payloadSegments
        PointerAt(segmentIndex) == BytesToNat(segments[segmentIndex + 1])
    IN  /\ \A k \in 0..Len(heap) : LengthKept(AfterHeapPasses(this, k))
        /\ \A k \in 0..Len(arrays) : LengthKept(AfterArrayPasses(this, k))
        /\ \A i \in 1..Len(segments) : segments[i] # GURAD_BYTES
        /\ \A i \in 1..Len(heap) :
               subarray(RegionOf(this), PointerAt(heap[i].segmentIndex),
                        PointerAt(heap[i].segmentIndex) + Len(heap[i].data))
                   = heap[i].data
        /\ \A i \in 1..Len(arrays) :
               /\ subarray(RegionOf(this), PointerAt(arrays[i].segmentIndex),
                           PointerAt(arrays[i].segmentIndex) + UINT256_SIZE)
                      = PadLeft(NatToBytes(arrays[i].arrayLength), 32)
               /\ arrays[i].arrayLength > 0
                     => subarray(RegionOf(this),
                                 PointerAt(arrays[i].segmentIndex) + UINT256_SIZE,
                                 PointerAt(arrays[i].segmentIndex) + UINT256_SIZE
                                     + Len(RegionOf(arrays[i].encoder)))
                            = RegionOf(arrays[i].encoder)
               /\ WellKept(arrays[i].encoder)

\* C28: an encoder's currentLength is the sum of the lengths of its payload
\* segments after the appends and after every pass of payload(); the buffer
\* returned is the selector and the encoder's region, without a placeholder,
\* and every pointer in it is the offset, from the start of the region, of
\* the length word it points to.
C28_EncoderBookkeeping ==
    (pc \in {"encoded", "called"} /\ ~IsThrown(encoded) /\ ~IsThrown(FilledEncoder))
        => /\ WellKept(FilledEncoder)
           /\ encoded.b = FilledEncoder.prepend \o RegionOf(FilledEncoder)

\* a value with a dynamic member and a dynamic array has been encoded
C28_Witness ==
    /\ pc = "encoded" /\ ~IsThrown(encoded) /\ ~IsThrown(FilledEncoder)
    /\ FilledEncoder.appendedHeapSegments # <<>>
    /\ FilledEncoder.appendedDynamicArray # <<>>

\* the definition encodeEvmFuncCall works on
CalledDefinition ==
    IF "inputs" \in DOMAIN typeIn THEN typeIn
    ELSE functionSignatureToABIDefinition(typeIn.s)

\* the first four bytes of the payload of a call of CalledDefinition
CalledSelector ==
    IF CalledDefinition.type = "fallback" THEN <<255, 255, 255, 255>>
    ELSE SubSeq(keccak256(CalledDefinition.name
                              \o tupleComponentsTypeSignature(CalledDefinition.inputs)), 1, 4)

\* the parameters supplied, encoded as a tuple of the first inputs
SuppliedEncoded ==
    encodeEvmType(valueIn,
                  TupleComponent(<<>>, S_tuple,
                                 SubSeq(CalledDefinition.inputs, 1, Len(valueIn.e))))

LastNamed(output, name) ==
    CHOOSE i \in 1..Len(output) :
        /\ output[i].name = name
        /\ \A j \in (i + 1)..Len(output) : output[j].name # name

\* C30: decodeEvmOutputAsStruct returns a mapping whose keys are the names of
\* the components that have one; a component without a name is read, so that
\* the value under a name is the one at its component's place in the data,
\* and is not in the mapping.
C30_NamedComponentsKeyed ==
    (pc = "decodedOutput" /\ ~IsThrown(decoded))
        => /\ decoded.t = "object"
           /\ DOMAIN decoded.f = {asType[i].name : i \in 1..Len(asType)} \ {<<>>}
           /\ \A name \in DOMAIN decoded.f :
                  /\ decoded.f[name]
                         = decodeEvmOutputAsArray(encoded.b, asType).e[LastNamed(asType, name)]
                  /\ asType[LastNamed(asType, name)].type # S_tuple
                         => decoded.f[name] = valueIn.e[LastNamed(asType, name)]

\* a named component after one without a name has been decoded
C30_Witness ==
    /\ pc = "decodedOutput" /\ ~IsThrown(decoded)
    /\ Len(asType) = 2 /\ asType[1].name = <<>> /\ asType[2].name = <<"b">>
    /\ asType[2].type # S_tuple
    /\ DOMAIN decoded.f = {<<"b">>}
    /\ decoded.f[<<"b">>] = valueIn.e[2]

====
